---------------------------- MODULE Spec2Model ----------------------------
(***************************************************************************)
(* A model of the mb-parts catalog pipeline: the Normalizer, the Discovery *)
(* Crawler (fetchParts / collectPartsFromSitemap), the Enrichment          *)
(* Refresher (syncPriceBatch and the sync-prices script) and the Chunked   *)
(* Index Builder (build-chunk-index run()).                                *)
(*                                                                         *)
(* Strings are sequences of one-character strings, so that upper-casing,   *)
(* stripping, prefix tests and tokenizing are computed and not assumed.    *)
(***************************************************************************)
EXTENDS Integers, Sequences, FiniteSets, TLC

(***************************************************************************)
(* Characters                                                              *)
(***************************************************************************)
LowerChars == <<"a","b","c","d","e","f","g","h","i","j","k","l","m",
                "n","o","p","q","r","s","t","u","v","w","x","y","z">>

UpperChars == <<"A","B","C","D","E","F","G","H","I","J","K","L","M",
                "N","O","P","Q","R","S","T","U","V","W","X","Y","Z">>

DigitChars == {"0","1","2","3","4","5","6","7","8","9"}

Range(s) == { s[i] : i \in DOMAIN s }

UpperSet == Range(UpperChars)

LowerSet == Range(LowerChars)

IsUpper(c) == c \in UpperSet

IsLower(c) == c \in LowerSet

IsDigit(c) == c \in DigitChars

\* String.prototype.toUpperCase / toLowerCase on one character.
ToUpperChar(c) ==
    IF IsLower(c) THEN UpperChars[CHOOSE i \in DOMAIN LowerChars : LowerChars[i] = c]
    ELSE IF c = "ä" THEN "Ä"
    ELSE IF c = "ö" THEN "Ö"
    ELSE IF c = "ü" THEN "Ü"
    ELSE c

\* The characters one character upper-cases to: the sharp s becomes SS.
ToUpperChars(c) == IF c = "ß" THEN <<"S","S">> ELSE <<ToUpperChar(c)>>

ToLowerChar(c) ==
    IF IsUpper(c) THEN LowerChars[CHOOSE i \in DOMAIN UpperChars : UpperChars[i] = c] ELSE c

\* Character by character; only a sharp s changes the length.
toUpperCase(s) ==
    IF \A i \in DOMAIN s : s[i] # "ß"
    THEN [i \in DOMAIN s |-> ToUpperChar(s[i])]
    ELSE LET Upper[k \in 0..Len(s)] ==
                 IF k = 0 THEN <<>> ELSE Upper[k - 1] \o ToUpperChars(s[k])
         IN  Upper[Len(s)]

toLowerCase(s) == [i \in DOMAIN s |-> ToLowerChar(s[i])]

\* A variant of the prefix test that accepts everything.
startsWithAnything(s, p) == TRUE

\* s.startsWith(p)
startsWith(s, p) == Len(p) <= Len(s) /\ SubSeq(s, 1, Len(p)) = p

\* s.slice(0, n)
slice0(s, n) == SubSeq(s, 1, IF n < Len(s) THEN n ELSE Len(s))

Min(a, b) == IF a < b THEN a ELSE b

Max(a, b) == IF a > b THEN a ELSE b

\* ceil(n / d) for d >= 1
CeilDiv(n, d) == (n + d - 1) \div d

(***************************************************************************)
(* Normalizer                                                              *)
(***************************************************************************)
\* The character class [A-Z0-9] kept by .replace(/[^A-Z0-9]/g, '').
IsPartChar(c) == IsUpper(c) \/ IsDigit(c)

\* A variant that strips without upper-casing and keeps the lower-case letters.
normalizePartNumberKeepingCase(raw) ==
    SelectSeq(raw, LAMBDA c : IsPartChar(c) \/ IsLower(c))

\* String(raw ?? '').toUpperCase().replace(/[^A-Z0-9]/g, ''); null and
\* undefined are the empty string <<>>.
normalizePartNumber(raw) == SelectSeq(toUpperCase(raw), IsPartChar)

\* normalizePartNumber(parsed.partNumber) of a parsed line.
normalizePartNumberOf(line) == normalizePartNumber(line.partNumber)

(***************************************************************************)
(* Chunked Index Builder: build-chunk-index run()                          *)
(***************************************************************************)
\* Bounds of the builder's inputs.
MaxLines == 4

MaxChunkSize == 3

\* tokenPrefixes.size >= 8 ends the token loop.
MaxTokenPrefixes == 8

\* token.length >= 3, token.slice(0, 3)
NamePrefixLen == 3

\* normalized.length < 4, normalized.slice(0, 4)
PartPrefixLen == 4

\* The lines the input stream is drawn from.  A line is what readline yields:
\* a blank line, a line JSON.parse rejects, or a record with its partNumber
\* and name fields.
BlankLine == [kind |-> "blank", partNumber |-> <<>>, name |-> <<>>]

MalformedLine == [kind |-> "malformed", partNumber |-> <<>>, name |-> <<>>]

RecordLine(pn, nm) == [kind |-> "record", partNumber |-> pn, name |-> nm]

SampleLines ==
    { RecordLine(<<"A","3","0","9","1">>, <<"O","i","l"," ","F","i","l","t","e","r">>),
      RecordLine(<<"a","3","1","0","-","2">>, <<"o","i","l","-","p","a","n"," ","1","2">>),
      RecordLine(<<"B","1","2">>, <<"a","b">>),
      RecordLine(<<"-","-">>, <<"O","i","l">>),
      RecordLine(<<"A","3","0","9","3">>,
                 <<"a","a","a"," ","b","b","b"," ","c","c","c"," ","d","d","d"," ",
                   "e","e","e"," ","f","f","f"," ","g","g","g"," ","h","h","h"," ",
                   "i","i","i">>),
      BlankLine,
      MalformedLine }

VARIABLES input, chunkSize, builderPc, chunkId, chunkCount, currentStream,
          currentFile, currentFirstPartNumber, currentLastPartNumber,
          totalParts, chunks, files, partPrefixIndex, namePrefixIndex,
          manifest, chunkMap

chunkVars == <<input, chunkSize, builderPc, chunkId, chunkCount, currentStream,
               currentFile, currentFirstPartNumber, currentLastPartNumber,
               totalParts, chunks, files, partPrefixIndex, namePrefixIndex,
               manifest, chunkMap>>

\* The Enrichment Refresher's state: the base snapshot's items, the price
\* snapshot's prices map, the cursor state file (<<>> while it does not exist),
\* the generatedAt stamp of the merged snapshot parts.json (<<>> before the
\* script first writes it), and the clock in days.  batchSize,
\* initPrices, startCursor, calls, scanned and lastSelected record the run:
\* the fixed batch size, the prices and effective cursor it started from, the
\* invocations so far, the indexes their scans examined, and the part numbers
\* the last invocation selected.  lastKind, lastRequest and lastResults record
\* the last invocation: its mode ("none" before the first), the part-number
\* list a direct-mode request carried, and the detail result fetched for each
\* selected part number, in the order of lastSelected.  catalogReplaced tells
\* whether the base snapshot was replaced after the cursor state file was
\* last written.
VARIABLES baseItems, prices, cursorFile, mergedGeneratedAt, now,
          batchSize, initPrices, startCursor, calls, scanned, lastSelected,
          lastKind, lastRequest, lastResults, catalogReplaced

refreshVars == <<baseItems, prices, cursorFile, mergedGeneratedAt, now,
                 batchSize, initPrices, startCursor, calls, scanned, lastSelected,
                 lastKind, lastRequest, lastResults, catalogReplaced>>

\* The Discovery Crawler's state: fetchParts' arguments (prefixes, limit,
\* options.enrichDetails), its locals (the loop positions prefixIdx and termIdx,
\* pageUrl, visited, pageCount, seen, items), the locals of
\* collectPartsFromSitemap (sitemapQueue, visitedSitemaps, foundItems,
\* seenPartNumbers), the items the /api/sync handler answers with after
\* filtering the snapshot, and crawlPc, the await the run is suspended at.
\* fetchedPages and refetched record the run's requests: the search page URLs
\* fetched so far, and whether the latest search or sitemap request was for a
\* URL ("search", "sitemap") the run had already requested.
VARIABLES crawlPc, prefixes, limit, enrichDetails, prefixIdx, termIdx, pageUrl,
          visited, pageCount, seen, items, sitemapQueue, visitedSitemaps,
          foundItems, seenPartNumbers, filteredItems, fetchedPages, refetched

crawlVars == <<crawlPc, prefixes, limit, enrichDetails, prefixIdx, termIdx, pageUrl,
               visited, pageCount, seen, items, sitemapQueue, visitedSitemaps,
               foundItems, seenPartNumbers, filteredItems, fetchedPages, refetched>>

\* One call of the page extractor: html, the sku values of the JSON-LD Product
\* blocks of the page it is given; extractPrefixes, its prefix filter; and
\* extractedItems, the part numbers of the records it returned, once
\* extractPc is "done".
VARIABLES extractPc, html, extractPrefixes, extractedItems

extractVars == <<extractPc, html, extractPrefixes, extractedItems>>

\* The dev server's refresher invocations that have read the price snapshot
\* and not yet written it back: pending[s] is the s-th invocation, with what
\* it read and selected; lost records the writes that discarded or reverted
\* an entry of the file that the write did not fetch, as "overlap" when
\* another invocation wrote between this one's read and its write, and as
\* "sequential" otherwise.
VARIABLES pending, lost

overlapVars == <<pending, lost>>

\* A value put through normalizePartNumber: raw, the value; once, what the
\* function returns for it; twice, what it returns for that result; normPc
\* tells how far the calls have got.
VARIABLES normPc, raw, once, twice

normalizeVars == <<normPc, raw, once, twice>>

\* One enrichment pass over a queue of items: concurrency, the pool size of
\* the pass; queueLen, the number of queued items (item k is the k-th); chunkStart, the
\* index the loop stands at; inFlight, the items whose detail fetch has started and not
\* settled; settled, the items whose fetch has settled; passPc, where the
\* loop stands.
VARIABLES passPc, concurrency, queueLen, chunkStart, inFlight, settled

poolVars == <<passPc, concurrency, queueLen, chunkStart, inFlight, settled>>

\* One run of the build orchestrator: hasNdjson and hasBaseJson, whether the
\* NDJSON stream and the base snapshot can be read; buildEnv, the environment
\* (whether PARTS_NDJSON_PATH and PARTS_JSON_PATH are set, PARTS_VEHICLE_KEY);
\* chunkInputPath, the --input given to chunk:index; stages, the npm scripts
\* started so far, each with its exit (<<>> while it runs); buildError, what
\* main() threw (<<>> when nothing); buildPc, the await main() stands at.
VARIABLES buildPc, hasNdjson, hasBaseJson, buildEnv, chunkInputPath, stages,
          buildError

buildVars == <<buildPc, hasNdjson, hasBaseJson, buildEnv, chunkInputPath, stages,
               buildError>>

\* One run of the migration: snapshotDoc, the base snapshot being read (its
\* header up to the items array, the texts of the array's elements, and what
\* follows the array); readPos, how many characters the read stream has
\* delivered; scanner, the scanner's variables (inItemsArray, searchBuffer,
\* capturingObject, objectBuffer, objectDepth, inString, escaped);
\* partsLines, the record lines written to parts.ndjson. migratePc is "read"
\* while chunks arrive and "done" after the stream has ended.
VARIABLES migratePc, snapshotDoc, readPos, scanner, partsLines

migrateVars == <<migratePc, snapshotDoc, readPos, scanner, partsLines>>

\* The detail-page cache of one server process: productDetailCache, the Map
\* from URL to stored result; pendingFetches, the number of calls for each URL
\* that await their fetch; detailCalls, the calls made so far; lastDetail, what
\* the last step was (a call answered from the cache, a call that started a
\* fetch, a fetch whose result was stored, a fetch that failed).
VARIABLES productDetailCache, pendingFetches, detailCalls, lastDetail

cacheVars == <<productDetailCache, pendingFetches, detailCalls, lastDetail>>

\* The client page: allItems, the current result (part number to its price
\* and availability); lazyLoadingPartNumbers and lazyLoadedPartNumbers, the
\* two marker sets of the lazy enrichment; enrichRequests, the enrich-visible
\* requests that await their response, each with the part numbers it carries;
\* requestsSent, the number of requests sent so far.
VARIABLES allItems, lazyLoadingPartNumbers, lazyLoadedPartNumbers, enrichRequests,
          requestsSent

clientVars == <<allItems, lazyLoadingPartNumbers, lazyLoadedPartNumbers, enrichRequests,
                requestsSent>>

vars == <<chunkVars, refreshVars, crawlVars, extractVars, overlapVars, normalizeVars,
          poolVars,
          buildVars,
          migrateVars,
          cacheVars,
          clientVars>>

getPartPrefix4Raw(partNumber) ==
    IF Len(partNumber) < PartPrefixLen THEN <<>> ELSE <<slice0(partNumber, PartPrefixLen - 1)>>

\* null is the empty sequence, a prefix p is <<p>>.
getPartPrefix4(partNumber) ==
    LET normalized == normalizePartNumber(partNumber)
    IN  IF Len(normalized) < PartPrefixLen THEN <<>> ELSE <<slice0(normalized, PartPrefixLen)>>

\* The token alphabet of the split pattern /[^a-z0-9äöüß]+/i.
IsTokenChar(c) == IsLower(c) \/ IsUpper(c) \/ IsDigit(c) \/ c \in {"ä","ö","ü","ß"}

RECURSIVE SplitTokens(_, _, _, _)
\* split(/[^a-z0-9äöüß]+/i): the maximal runs of token characters of s, in order
\* (the empty pieces split() yields at the ends are dropped by the length filter).
SplitTokens(s, i, cur, acc) ==
    IF i > Len(s) THEN (IF cur = <<>> THEN acc ELSE Append(acc, cur))
    ELSE IF IsTokenChar(s[i]) THEN SplitTokens(s, i + 1, Append(cur, s[i]), acc)
    ELSE SplitTokens(s, i + 1, <<>>, IF cur = <<>> THEN acc ELSE Append(acc, cur))

tokenizeNameShort(name) ==
    SelectSeq(SplitTokens(toLowerCase(name), 1, <<>>, <<>>), LAMBDA t : Len(t) >= NamePrefixLen - 1)

tokenizeName(name) ==
    SelectSeq(SplitTokens(toLowerCase(name), 1, <<>>, <<>>), LAMBDA t : Len(t) >= NamePrefixLen)

RECURSIVE TokenPrefixLoop(_, _, _)
\* for (const token of tokens) { add token.slice(0,3); if (size >= 8) break; }
TokenPrefixLoop(tokens, i, acc) ==
    IF i > Len(tokens) THEN acc
    ELSE LET next == acc \cup {slice0(tokens[i], NamePrefixLen)}
         IN  IF Cardinality(next) >= MaxTokenPrefixes THEN next
             ELSE TokenPrefixLoop(tokens, i + 1, next)

tokenPrefixesOf(name) == TokenPrefixLoop(tokenizeName(name), 1, {})

\* index.get(key).add(chunkId), creating the set when the key is new.
addToIndex(index, key, id) ==
    IF key \in DOMAIN index THEN [index EXCEPT ![key] = @ \cup {id}]
    ELSE index @@ (key :> {id})

RECURSIVE addAllToIndex(_, _, _)
addAllToIndex(index, keys, id) ==
    IF keys = {} THEN index
    ELSE LET k == CHOOSE x \in keys : TRUE
         IN  addAllToIndex(addToIndex(index, k, id), keys \ {k}, id)

RECURSIVE SortedSeq(_)
\* Array.from(set).sort((l, r) => l - r)
SortedSeq(S) ==
    IF S = {} THEN <<>>
    ELSE LET m == CHOOSE x \in S : \A y \in S : x <= y
         IN  <<m>> \o SortedSeq(S \ {m})

sortedIndexObject(index) == [k \in DOMAIN index |-> SortedSeq(index[k])]

\* chunkCount >= args.chunkSize
ChunkFullLate(count, size) == count > size

ChunkFull(count, size) == count >= size

\* A variant of the ChunkMeta that records the first part number as the last.
ChunkMetaOfFirstOnly(id, file, count, first, last) ==
    [id |-> id, file |-> file, count |-> count,
     firstPartNumber |-> first, lastPartNumber |-> first]

\* The ChunkMeta closeChunk() pushes.
ChunkMetaOf(id, file, count, first, last) ==
    [id |-> id, file |-> file, count |-> count,
     firstPartNumber |-> first, lastPartNumber |-> last]

\* The line written to the open chunk: `${line}\n`, the input line verbatim.
WrittenLineNormalized(line) == [line EXCEPT !.partNumber = normalizePartNumber(@)]

WrittenLine(line) == line

\* The builder before run() starts reading.
ChunkStart ==
    /\ input = <<>>
    /\ chunkSize \in 1..MaxChunkSize
    /\ builderPc = "reading"
    /\ chunkId = -1
    /\ chunkCount = 0
    /\ currentStream = <<>>
    /\ currentFile = <<>>
    /\ currentFirstPartNumber = <<>>
    /\ currentLastPartNumber = <<>>
    /\ totalParts = 0
    /\ chunks = <<>>
    /\ files = <<>>
    /\ partPrefixIndex = <<>>
    /\ namePrefixIndex = <<>>
    /\ manifest = <<>>
    /\ chunkMap = <<>>


\* The builder not running.
ChunkIdle ==
    /\ input = <<>>
    /\ chunkSize = 1
    /\ builderPc = "idle"
    /\ chunkId = -1
    /\ chunkCount = 0
    /\ currentStream = <<>>
    /\ currentFile = <<>>
    /\ currentFirstPartNumber = <<>>
    /\ currentLastPartNumber = <<>>
    /\ totalParts = 0
    /\ chunks = <<>>
    /\ files = <<>>
    /\ partPrefixIndex = <<>>
    /\ namePrefixIndex = <<>>
    /\ manifest = <<>>
    /\ chunkMap = <<>>

\* A blank line (continue) or a record whose part number normalizes to ''.
SkipLine(line) ==
    /\ builderPc = "reading"
    /\ Len(input) < MaxLines
    /\ \/ line.kind = "blank"
       \/ line.kind = "record" /\ normalizePartNumber(line.partNumber) = <<>>
    /\ input' = Append(input, line)
    /\ UNCHANGED <<chunkSize, builderPc, chunkId, chunkCount, currentStream,
                   currentFile, currentFirstPartNumber, currentLastPartNumber,
                   totalParts, chunks, files, partPrefixIndex, namePrefixIndex,
                   manifest, chunkMap, refreshVars, crawlVars, extractVars, overlapVars, normalizeVars, poolVars, buildVars, migrateVars, cacheVars, clientVars>>

\* A variant that skips the line JSON.parse rejects and goes on reading.
MalformedLineSkipped(line) ==
    /\ builderPc = "reading"
    /\ Len(input) < MaxLines
    /\ line.kind = "malformed"
    /\ input' = Append(input, line)
    /\ UNCHANGED <<chunkSize, builderPc, chunkId, chunkCount, currentStream,
                   currentFile, currentFirstPartNumber, currentLastPartNumber,
                   totalParts, chunks, files, partPrefixIndex, namePrefixIndex,
                   manifest, chunkMap, refreshVars, crawlVars, extractVars, overlapVars, normalizeVars, poolVars, buildVars, migrateVars, cacheVars, clientVars>>

\* JSON.parse(line) throws: run() rejects, nothing more is read or written.
MalformedLineRead(line) ==
    /\ builderPc = "reading"
    /\ Len(input) < MaxLines
    /\ line.kind = "malformed"
    /\ input' = Append(input, line)
    /\ builderPc' = "failed"
    /\ UNCHANGED <<chunkSize, chunkId, chunkCount, currentStream,
                   currentFile, currentFirstPartNumber, currentLastPartNumber,
                   totalParts, chunks, files, partPrefixIndex, namePrefixIndex,
                   manifest, chunkMap, refreshVars, crawlVars, extractVars, overlapVars, normalizeVars, poolVars, buildVars, migrateVars, cacheVars, clientVars>>

\* One iteration of the for-await loop for a record that is written.
WriteRecord(line) ==
    /\ builderPc = "reading"
    /\ Len(input) < MaxLines
    /\ line.kind = "record"
    /\ LET partNumber == normalizePartNumber(line.partNumber)
           opened     == currentStream = <<>>
           id         == IF opened THEN chunkId + 1 ELSE chunkId
           file       == IF opened THEN <<id>> ELSE currentFile
           fileSoFar  == IF opened THEN <<>> ELSE files[id]
           count      == chunkCount + 1
           first      == IF currentFirstPartNumber = <<>> THEN partNumber
                         ELSE currentFirstPartNumber
           prefix4    == getPartPrefix4(partNumber)
           full       == ChunkFull(count, chunkSize)
       IN  /\ partNumber # <<>>
           /\ input' = Append(input, line)
           /\ chunkId' = id
           /\ files' = (id :> Append(fileSoFar, WrittenLine(line))) @@ files
           /\ totalParts' = totalParts + 1
           /\ partPrefixIndex' = IF prefix4 = <<>> THEN partPrefixIndex
                                 ELSE addToIndex(partPrefixIndex, prefix4[1], id)
           /\ namePrefixIndex' = addAllToIndex(namePrefixIndex, tokenPrefixesOf(line.name), id)
           /\ currentFile' = file
           /\ IF full
              THEN \* closeChunk()
                   /\ chunks' = Append(chunks, ChunkMetaOf(id, file, count, first, partNumber))
                   /\ currentStream' = <<>>
                   /\ chunkCount' = 0
                   /\ currentFirstPartNumber' = <<>>
                   /\ currentLastPartNumber' = <<>>
              ELSE /\ chunks' = chunks
                   /\ currentStream' = <<id>>
                   /\ chunkCount' = count
                   /\ currentFirstPartNumber' = first
                   /\ currentLastPartNumber' = partNumber
    /\ UNCHANGED <<chunkSize, builderPc, manifest, chunkMap, refreshVars, crawlVars, extractVars, overlapVars, normalizeVars, poolVars, buildVars, migrateVars, cacheVars, clientVars>>

\* End of the stream: the final closeChunk(), then manifest.json and chunk-map.json.
EndOfStream ==
    /\ builderPc = "reading"
    /\ LET closing == currentStream # <<>> /\ chunkCount # 0
           closed  == IF closing
                      THEN Append(chunks, ChunkMetaOf(chunkId, currentFile, chunkCount,
                                                      currentFirstPartNumber,
                                                      currentLastPartNumber))
                      ELSE chunks
       IN  /\ chunks' = closed
           /\ currentStream' = <<>>
           /\ chunkCount' = IF closing THEN 0 ELSE chunkCount
           /\ currentFirstPartNumber' = IF closing THEN <<>> ELSE currentFirstPartNumber
           /\ currentLastPartNumber' = IF closing THEN <<>> ELSE currentLastPartNumber
           /\ manifest' = << [chunkSizeLines |-> chunkSize,
                              chunkCount     |-> Len(closed),
                              totalParts     |-> totalParts,
                              chunks         |-> closed] >>
           /\ chunkMap' = << [byPartPrefix4 |-> sortedIndexObject(partPrefixIndex),
                              byNamePrefix3 |-> sortedIndexObject(namePrefixIndex)] >>
    /\ builderPc' = "done"
    /\ UNCHANGED <<input, chunkSize, chunkId, currentFile, totalParts, files,
                   partPrefixIndex, namePrefixIndex, refreshVars, crawlVars, extractVars, overlapVars, normalizeVars, poolVars, buildVars, migrateVars, cacheVars, clientVars>>

ChunkNext ==
    \/ \E line \in SampleLines : SkipLine(line)
    \/ \E line \in SampleLines : MalformedLineRead(line)
    \/ \E line \in SampleLines : WriteRecord(line)
    \/ EndOfStream

(***************************************************************************)
(* Enrichment Refresher, rotating-batch mode: syncPriceBatch (dev server)  *)
(* and main() of the sync-prices script.  One invocation runs to           *)
(* completion; the clock counts whole days.                                *)
(***************************************************************************)
\* Bounds of the refresher's inputs.
MaxItems == 3

MaxBatch == 2

MaxCalls == 2

MaxElapsed == 8

\* staleAfterMs = 7 * 24 * 60 * 60 * 1000; STALE_DAYS defaults to 7.
StaleDays == 7

\* Math.max(1, Math.min(batchSize, 5000))
SyncBatchCap == 5000

\* normalizeBatch: 1000 when the value is not positive, at most 20000.
ScriptBatchDefault == 1000

ScriptBatchCap == 20000

\* The day the run starts on; an entry written on day 0 is stale by then.
StartDay == StaleDays + 1

\* The base snapshot's items are drawn from this list, in this order.
CatalogPool ==
    << <<"A","3","0","9","1","2","3","4","5","6","7">>,
       <<"A","3","1","0","1","2","3","4","5","6","7">>,
       <<"A","3","0","9","0","0","0","0","0","0","1">>,
       <<"A","3","1","0","0","0","0","0","0","0","2">>,
       <<"A","3","0","9","0","0","0","0","0","0","3">>,
       <<"A","3","1","0","0","0","0","0","0","0","4">> >>

BaseItem(pn) == [partNumber |-> pn, price |-> <<>>, availability |-> "unknown"]

Catalog(m) == [i \in 1..m |-> BaseItem(CatalogPool[i])]

\* A PriceEntry; an absent price is <<>>, an unparseable updatedAt is <<>>.
PriceEntry(price, availability, updatedAt) ==
    [price |-> price, availability |-> availability, updatedAt |-> updatedAt]

\* What a detail-page fetch can return: the degraded result of a failed fetch
\* and a parsed page.
FetchFailed == [price |-> <<>>, availability |-> "unknown"]

\* What the shop can answer a detail-page request with: the request throws, the
\* status is not a success, or a product page with a price and a stock status.
DetailResponses == {"network_error", "status_503", "product_page"}

\* fetchProductDetailMeta / fetchDetailMeta: if (!response.ok) return
\* { availability: 'unknown' }; catch { return { availability: 'unknown' } };
\* else { price, availability } parsed from the page.
fetchProductDetailMeta(response) ==
    IF response = "product_page"
    THEN [price |-> <<"9,99 EUR">>, availability |-> "in_stock"]
    ELSE FetchFailed

FetchOutcomes == { fetchProductDetailMeta(response) : response \in DetailResponses }

\* Date.parse(entry.updatedAt) is finite.
HasTimestamp(entry) == entry.updatedAt # <<>>

\* syncPriceBatch: !entry || isStale, with isStale = !finite(ts) || now - ts > staleAfter.
IsCandidateSkippingMissing(priceMap, pn, nowDay) ==
    /\ pn \in DOMAIN priceMap
    /\ (~HasTimestamp(priceMap[pn]) \/ nowDay - priceMap[pn].updatedAt[1] > StaleDays)

IsCandidate(priceMap, pn, nowDay) ==
    \/ pn \notin DOMAIN priceMap
    \/ ~HasTimestamp(priceMap[pn])
    \/ nowDay - priceMap[pn].updatedAt[1] > StaleDays

\* sync-prices script: shouldRefresh(entry, nowMs).
shouldRefresh(priceMap, pn, nowDay) ==
    IF pn \notin DOMAIN priceMap \/ ~HasTimestamp(priceMap[pn]) THEN TRUE
    ELSE nowDay - priceMap[pn].updatedAt[1] > StaleDays

normalizedBatch(b) == Max(1, Min(b, SyncBatchCap))

normalizeBatch(b) == IF b <= 0 THEN ScriptBatchDefault ELSE Min(b, ScriptBatchCap)

\* idx = (cursor + i) % items.length
ScanIndex(cursor, i, total) == (cursor + i) % total

RECURSIVE ScanLoop(_, _, _, _, _, _, _)
\* for (i = 0; i < items.length && candidates.length < batch; i += 1): the
\* candidate indexes in scan order and the set of indexes examined.  fresh is
\* the set of part numbers the implementation's staleness test leaves alone.
ScanLoop(catalog, fresh, cursor, batch, i, cands, seenIdx) ==
    IF ~(i < Len(catalog) /\ Len(cands) < batch)
    THEN [candidateIndexes |-> cands, scanned |-> seenIdx]
    ELSE LET idx == ScanIndex(cursor, i, Len(catalog))
         IN  ScanLoop(catalog, fresh, cursor, batch, i + 1,
                      IF catalog[idx + 1].partNumber \in fresh THEN cands
                      ELSE Append(cands, idx),
                      seenIdx \cup {idx})

\* syncPriceBatch: cursor = Math.max(0, state.cursor % Math.max(items.length, 1)),
\* 0 when the state file cannot be read.
SyncStartCursorIgnoringState(state, total) == 0

SyncStartCursor(state, total) ==
    IF state = <<>> THEN 0 ELSE Max(0, state[1] % Max(total, 1))

\* sync-prices script: startCursor = Math.max(0, state.cursor), cursor 0 by default.
ScriptStartCursor(state) == IF state = <<>> THEN 0 ELSE Max(0, state[1])

\* nextCursor = (lastIndex + 1) % items.length, lastIndex the last candidate's
\* index, or the start cursor when there is no candidate.
NextCursorUnwrapped(candidateIndexes, cursor, total) ==
    (IF candidateIndexes = <<>> THEN cursor
     ELSE candidateIndexes[Len(candidateIndexes)]) + 1

\* A variant that advances by the number of candidates.
NextCursorByCount(candidateIndexes, cursor, total) ==
    (cursor + Max(1, Len(candidateIndexes))) % total

NextCursorNoAdvance(candidateIndexes, cursor, total) ==
    (IF candidateIndexes = <<>> THEN cursor
     ELSE candidateIndexes[Len(candidateIndexes)]) % total

NextCursor(candidateIndexes, cursor, total) ==
    ((IF candidateIndexes = <<>> THEN cursor
      ELSE candidateIndexes[Len(candidateIndexes)]) + 1) % total

\* Variants of the write loop: one leaves a stored entry alone when the fetch
\* came back unknown, one writes each result under the part number of the next
\* catalog item, one stops at the first failed fetch.
RECURSIVE WriteEntriesKeepingKnown(_, _, _, _, _, _)
WriteEntriesKeepingKnown(priceMap, catalog, candidateIndexes, results, nowDay, k) ==
    IF k > Len(candidateIndexes) THEN priceMap
    ELSE LET pn    == catalog[candidateIndexes[k] + 1].partNumber
             entry == PriceEntry(results[k].price, results[k].availability, <<nowDay>>)
         IN  WriteEntriesKeepingKnown(
                 IF results[k].availability = "unknown" /\ pn \in DOMAIN priceMap
                 THEN priceMap ELSE (pn :> entry) @@ priceMap,
                 catalog, candidateIndexes, results, nowDay, k + 1)

RECURSIVE WriteEntriesUnderNextItem(_, _, _, _, _, _)
WriteEntriesUnderNextItem(priceMap, catalog, candidateIndexes, results, nowDay, k) ==
    IF k > Len(candidateIndexes) THEN priceMap
    ELSE LET pn    == catalog[((candidateIndexes[k] + 1) % Len(catalog)) + 1].partNumber
             entry == PriceEntry(results[k].price, results[k].availability, <<nowDay>>)
         IN  WriteEntriesUnderNextItem((pn :> entry) @@ priceMap, catalog, candidateIndexes,
                                       results, nowDay, k + 1)

RECURSIVE WriteEntriesUntilFailure(_, _, _, _, _, _)
WriteEntriesUntilFailure(priceMap, catalog, candidateIndexes, results, nowDay, k) ==
    IF k > Len(candidateIndexes) \/ results[k].availability = "unknown" THEN priceMap
    ELSE LET pn    == catalog[candidateIndexes[k] + 1].partNumber
             entry == PriceEntry(results[k].price, results[k].availability, <<nowDay>>)
         IN  WriteEntriesUntilFailure((pn :> entry) @@ priceMap, catalog, candidateIndexes,
                                      results, nowDay, k + 1)

\* priceSnapshot.prices[partNumber] = { price, availability, updatedAt } for
\* each candidate, results[k] being the k-th candidate's fetch result.
RECURSIVE WriteEntries(_, _, _, _, _, _)
WriteEntries(priceMap, catalog, candidateIndexes, results, nowDay, k) ==
    IF k > Len(candidateIndexes) THEN priceMap
    ELSE LET pn    == catalog[candidateIndexes[k] + 1].partNumber
             entry == PriceEntry(results[k].price, results[k].availability, <<nowDay>>)
         IN  WriteEntries((pn :> entry) @@ priceMap, catalog, candidateIndexes,
                          results, nowDay, k + 1)

\* sync-prices script: an item of the merged snapshot parts.json, which main()
\* writes last from the base items and the prices just written.  The items of
\* that file are this function of baseItems and of the price map of the same
\* write; the state keeps the file's generatedAt stamp.
MergedItem(item, priceMap) ==
    IF item.partNumber \notin DOMAIN priceMap THEN item
    ELSE LET entry == priceMap[item.partNumber]
         IN  IF entry.price # <<>>
             THEN [item EXCEPT !.price = entry.price, !.availability = entry.availability]
             ELSE [item EXCEPT !.availability = entry.availability]

PartNumbersAt(catalog, indexes) == [k \in DOMAIN indexes |-> catalog[indexes[k] + 1].partNumber]

FreshSet(catalog, test(_)) == { catalog[i].partNumber : i \in { i \in DOMAIN catalog : ~test(catalog[i].partNumber) } }

\* The refresher with no invocation in progress and nothing on disk.
RefreshIdle ==
    /\ baseItems = <<>>
    /\ prices = <<>>
    /\ mergedGeneratedAt = <<>>
    /\ cursorFile = <<>>
    /\ now = StartDay
    /\ batchSize = 1
    /\ initPrices = <<>>
    /\ startCursor = 0
    /\ calls = 0
    /\ scanned = {}
    /\ lastSelected = <<>>
    /\ lastKind = "none"
    /\ lastRequest = <<>>
    /\ lastResults = <<>>
    /\ catalogReplaced = FALSE

\* The snapshots a run can start from: a catalog of up to MaxItems items, each
\* with no entry, a stale entry or a fresh entry, and any in-range cursor or no
\* cursor file.
RefreshStart ==
    /\ \E m \in 0..MaxItems : baseItems = Catalog(m)
    /\ \E kind \in [DOMAIN baseItems -> {"missing", "stale", "fresh"}] :
          prices = [pn \in { baseItems[i].partNumber : i \in { i \in DOMAIN baseItems : kind[i] # "missing" } } |->
                      LET i == CHOOSE i \in DOMAIN baseItems : baseItems[i].partNumber = pn
                      IN  PriceEntry(<<>>, "in_stock",
                                     IF kind[i] = "stale" THEN <<0>> ELSE <<StartDay>>)]
    /\ cursorFile \in {<<>>} \cup { <<c>> : c \in 0..(Len(baseItems) - 1) }
    /\ mergedGeneratedAt = <<>>
    /\ now = StartDay
    /\ batchSize \in 1..MaxBatch
    /\ initPrices = prices
    /\ startCursor = IF cursorFile = <<>> THEN 0 ELSE cursorFile[1]
    /\ calls = 0
    /\ scanned = {}
    /\ lastSelected = <<>>
    /\ lastKind = "none"
    /\ lastRequest = <<>>
    /\ lastResults = <<>>
    /\ catalogReplaced = FALSE

\* syncPriceBatch(batchSize), run to completion; stored is what
\* readPriceSnapshot() returned: the file's prices map, or an empty map when
\* the read or the parse threw.
SyncPriceBatchOn(stored) ==
    /\ calls < MaxCalls
    /\ LET catalog  == baseItems
           total  == Len(catalog)
           cursor == SyncStartCursor(cursorFile, total)
       IN  IF total = 0
           THEN \* return { updated: 0, pricedCount: 0, nextCursor: 0 }
                /\ lastSelected' = <<>>
                /\ lastResults' = <<>>
                /\ UNCHANGED <<prices, cursorFile, scanned, catalogReplaced>>
           ELSE LET fresh == FreshSet(catalog, LAMBDA pn : IsCandidate(stored, pn, now))
                    scan  == ScanLoop(catalog, fresh, cursor, normalizedBatch(batchSize),
                                      0, <<>>, {})
                    cands == scan.candidateIndexes
                IN  \E results \in [DOMAIN cands -> FetchOutcomes] :
                       /\ prices' = WriteEntries(stored, catalog, cands, results, now, 1)
                       /\ cursorFile' = <<NextCursor(cands, cursor, total)>>
                       /\ catalogReplaced' = FALSE
                       /\ scanned' = scanned \cup scan.scanned
                       /\ lastSelected' = PartNumbersAt(catalog, cands)
                       /\ lastResults' = results
    /\ calls' = calls + 1
    /\ lastKind' = "rotating"
    /\ lastRequest' = <<>>
    /\ UNCHANGED <<baseItems, mergedGeneratedAt, now, batchSize, initPrices, startCursor, chunkVars, crawlVars, extractVars, overlapVars, normalizeVars, poolVars, buildVars, migrateVars, cacheVars, clientVars>>

\* POST /api/sync-prices with the price snapshot read from its file.
SyncPriceBatch == SyncPriceBatchOn(prices)

\* The sync-prices script's main(), run to completion; stored is what
\* readJson(PRICE_PATH, { prices: {} }) returned.
PriceSyncMainOn(stored) ==
    /\ calls < MaxCalls
    /\ LET catalog  == baseItems
           total  == Len(catalog)
           cursor == ScriptStartCursor(cursorFile)
           fresh  == FreshSet(catalog, LAMBDA pn : shouldRefresh(stored, pn, now))
           scan   == IF total = 0 THEN [candidateIndexes |-> <<>>, scanned |-> {}]
                     ELSE ScanLoop(catalog, fresh, cursor, normalizeBatch(batchSize), 0, <<>>, {})
           cands  == scan.candidateIndexes
       IN  IF cands = <<>>
           THEN \* nothing to refresh: return before any write
                /\ lastSelected' = <<>>
                /\ lastResults' = <<>>
                /\ scanned' = scanned \cup scan.scanned
                /\ UNCHANGED <<prices, cursorFile, mergedGeneratedAt, catalogReplaced>>
           ELSE \E results \in [DOMAIN cands -> FetchOutcomes] :
                       /\ prices' = WriteEntries(stored, catalog, cands, results, now, 1)
                       /\ cursorFile' = <<NextCursor(cands, cursor, total)>>
                       /\ catalogReplaced' = FALSE
                       /\ mergedGeneratedAt' = <<now>>
                       /\ scanned' = scanned \cup scan.scanned
                       /\ lastSelected' = PartNumbersAt(catalog, cands)
                       /\ lastResults' = results
    /\ calls' = calls + 1
    /\ lastKind' = "rotating"
    /\ lastRequest' = <<>>
    /\ UNCHANGED <<baseItems, now, batchSize, initPrices, startCursor, chunkVars, crawlVars, extractVars, overlapVars, normalizeVars, poolVars, buildVars, migrateVars, cacheVars, clientVars>>

\* The sync-prices script with the price snapshot read from its file.
PriceSyncMain == PriceSyncMainOn(prices)

\* Time passes between invocations: a week, or a week and a day.
Tick(days) ==
    /\ now + days <= StartDay + MaxElapsed
    /\ now' = now + days
    /\ UNCHANGED <<baseItems, prices, cursorFile, mergedGeneratedAt, batchSize,
                   initPrices, startCursor, calls, scanned, lastSelected,
                   lastKind, lastRequest, lastResults, catalogReplaced, chunkVars, crawlVars, extractVars, overlapVars, normalizeVars, poolVars, buildVars, migrateVars, cacheVars, clientVars>>

RefreshNext ==
    \/ SyncPriceBatch
    \/ PriceSyncMain
    \/ \E days \in {StaleDays, StaleDays + 1} : Tick(days)

(***************************************************************************)
(* Discovery Crawler: fetchParts and collectPartsFromSitemap               *)
(***************************************************************************)
\* Bounds of a crawl: the largest limit, and the number of distinct search
\* page URLs the server answers with (URL 1 is the term's first page).
MaxLimit == 2

MaxPageUrls == 2

\* while (... && pageCount < MAX_PAGES)
MAX_PAGES == 500

\* const maxSitemaps = 500
maxSitemaps == 500

\* The prefix lists a run is asked for, as parsePrefixes yields them: upper
\* case and non-empty.  They include overlapping prefixes and one that matches
\* the all-zero placeholder.
PrefixLists ==
    { << <<"A","3","0","9">> >>,
      << <<"A","3","0","9">>, <<"A","3","1","0">> >>,
      << <<"A","3">>, <<"A","3","0","9">> >>,
      << <<"A","0">> >> }

\* const searchTerms = [searchPrefix, `${searchPrefix}*`, `${searchPrefix} `]
searchTerms(searchPrefix) ==
    << searchPrefix, searchPrefix \o <<"*">>, searchPrefix \o <<" ">> >>

\* The sku values the server's Product entries carry (as written on the page).
SkuPool ==
    { <<"A","3","0","9"," ","1","2","3">>,
      <<"a","3","0","9","1","2","3">>,
      <<"A","3","1","0","4","5","6">>,
      <<"A","0","0","0","0","0","0","0","0","0","0","0">>,
      <<"B","9","9","9">> }

\* A search result page lists no, one or two products.
PageSkus ==
    {<<>>} \cup { <<a>> : a \in SkuPool } \cup { <<a, b>> : a \in SkuPool, b \in SkuPool }

\* The sitemap URLs: the two fetchParts starts from, and one only a robots.txt
\* line or a sitemap index can name.
SitemapXml == <<"/","s","i","t","e","m","a","p",".","x","m","l">>

SitemapIndexXml == <<"/","s","i","t","e","m","a","p","_","i","n","d","e","x",".","x","m","l">>

SitemapChildGz == <<"/","s","3",".","x","m","l",".","g","z">>

\* The <loc> values the server's sitemaps carry.
LocPool ==
    { SitemapXml,
      SitemapChildGz,
      <<"/","p","/","A","3","0","9">>,
      <<"/","p","/","a","3","0","9","-","1","2","3">>,
      <<"/","p","/","A","3","1","0","4","5","6","/","x">>,
      <<"/","p","/","A","0","0","0","0","0","0","0","0","0","0","0">> }

\* A sitemap document lists no, one or two <loc> values.
SitemapLocs ==
    {<<>>} \cup { <<a>> : a \in LocPool } \cup { <<a, b>> : a \in LocPool, b \in LocPool }

\* What robots.txt can add to the queue: nothing (also when it cannot be
\* fetched), a sitemap already queued, or a new one.
RobotsSitemaps == { <<>>, <<SitemapXml>>, <<SitemapChildGz>> }

\* What a product detail page can yield for availability.
DetailOutcomes == { "unknown", "in_stock" }

\* An item fetchParts holds: via and searchPrefix record where it was found.
PartItem(partNumber, via, searchPrefix) ==
    [partNumber |-> partNumber, via |-> via, searchPrefix |-> searchPrefix,
     availability |-> "unknown"]

\* /\.xml(?:\.gz)?(?:$|\?)/i.test(url)
isSitemapUrl(url) ==
    LET u == toLowerCase(url)
        EndsOrQuery(j) == j > Len(u) \/ u[j] = "?"
    IN  \E i \in 1..Len(u) :
           /\ i + 3 <= Len(u)
           /\ SubSeq(u, i, i + 3) = <<".","x","m","l">>
           /\ \/ EndsOrQuery(i + 4)
              \/ /\ i + 6 <= Len(u)
                 /\ SubSeq(u, i + 4, i + 6) = <<".","g","z">>
                 /\ EndsOrQuery(i + 7)

\* The character class [A-Z0-9-] of the href pattern.
IsHrefChar(c) == IsUpper(c) \/ IsDigit(c) \/ c = "-"

RECURSIVE HrefRun(_, _, _)
\* The number of [A-Z0-9-] characters from position j on, at most max.
HrefRun(h, j, max) ==
    IF max = 0 \/ j > Len(h) \/ ~IsHrefChar(h[j]) THEN 0
    ELSE 1 + HrefRun(h, j + 1, max - 1)

RECURSIVE HrefMatches(_, _, _)
\* normalizedHref.match(new RegExp(`${escapedPrefix}[A-Z0-9-]{2,40}`, 'g')):
\* the leftmost, longest, non-overlapping matches from position i on.
HrefMatches(h, prefix, i) ==
    IF i + Len(prefix) - 1 > Len(h) THEN <<>>
    ELSE LET run == HrefRun(h, i + Len(prefix), 40)
         IN  IF SubSeq(h, i, i + Len(prefix) - 1) = prefix /\ run >= 2
             THEN <<SubSeq(h, i, i + Len(prefix) + run - 1)>>
                  \o HrefMatches(h, prefix, i + Len(prefix) + run)
             ELSE HrefMatches(h, prefix, i + 1)

RECURSIVE FirstNormalizedMatch(_, _, _)
\* for (const match of matches) { ... if (normalized.startsWith(prefix)) return }
FirstNormalizedMatch(matches, prefix, k) ==
    IF k > Len(matches) THEN <<>>
    ELSE LET normalized == normalizePartNumber(matches[k])
         IN  IF startsWith(normalized, prefix) THEN normalized
             ELSE FirstNormalizedMatch(matches, prefix, k + 1)

RECURSIVE HrefPrefixLoop(_, _, _)
HrefPrefixLoop(normalizedHref, prefixList, k) ==
    IF k > Len(prefixList) THEN <<>>
    ELSE LET found == FirstNormalizedMatch(
                          HrefMatches(normalizedHref, prefixList[k], 1), prefixList[k], 1)
         IN  IF found # <<>> THEN found
             ELSE HrefPrefixLoop(normalizedHref, prefixList, k + 1)

\* extractPartNumberFromHref(href, prefixes) for a non-empty prefix list; null
\* is <<>>.
extractPartNumberFromHref(href, prefixList) ==
    HrefPrefixLoop(toUpperCase(href), prefixList, 1)

\* extractItemsFromStructuredScripts(html, baseUrl, prefixes) on a page whose
\* only inline scripts are its JSON-LD Product blocks: script:not([src])
\* selects them too, their content starts with { and parses, and every object
\* whose partNumber ?? productNumber ?? articleNumber ?? sku ?? productId,
\* here the sku, normalizes to a value starting with one of the prefixes
\* yields a record.
extractItemsFromStructuredScripts(skus, prefixList) ==
    LET resolvedPartNumber(k) == normalizePartNumber(skus[k])
        kept == { k \in DOMAIN skus :
                    /\ resolvedPartNumber(k) # <<>>
                    /\ \E j \in DOMAIN prefixList :
                           startsWith(resolvedPartNumber(k), prefixList[j]) }
    IN  SelectSeq([k \in DOMAIN skus |-> IF k \in kept THEN resolvedPartNumber(k) ELSE <<>>],
                  LAMBDA pn : pn # <<>>)

\* The script[type="application/ld+json"] pass of extractItemsFromHtml on a
\* page without product containers and anchors: the sku of every Product
\* entry normalized, kept when non-empty and starting with one of the
\* prefixes.
JsonLdProducts(skus, prefixList) ==
    LET partNumberOf(k) == normalizePartNumber(skus[k])
        kept == { k \in DOMAIN skus :
                    /\ partNumberOf(k) # <<>>
                    /\ \E j \in DOMAIN prefixList : startsWith(partNumberOf(k), prefixList[j]) }
        Pick[k \in 0..Len(skus)] ==
            IF k = 0 THEN <<>>
            ELSE IF k \in kept THEN Pick[k - 1] \o <<partNumberOf(k)>> ELSE Pick[k - 1]
    IN  Pick[Len(skus)]

\* extractItemsFromHtml(html, baseUrl, prefixes) on such a page, as the part
\* numbers of the records it returns: the JSON-LD records, followed by those
\* of the embedded-state pass when fewer than three were found.
extractItemsFromHtml(skus, prefixList) ==
    LET extracted == JsonLdProducts(skus, prefixList)
    IN  IF Len(extracted) < 3
        THEN extracted \o extractItemsFromStructuredScripts(skus, prefixList)
        ELSE extracted

\* findNextPageUrl(html, pageUrl): the page's next link, null when the page
\* has none or it points at the page itself.
findNextPageUrl(next, currentUrl) ==
    IF next # <<>> /\ next[1] # currentUrl THEN next ELSE <<>>

\* A variant of seen.has that never finds the part number.
seenHasNothing(seenSet, partNumber) == FALSE

\* seen.has(item.partNumber)
seenHas(seenSet, partNumber) == partNumber \in seenSet

RECURSIVE AddExtracted(_, _, _, _, _, _)
\* for (const item of extracted) { ... } of fetchParts: prefix test, seen test,
\* push, and the break at the limit.
AddExtracted(extracted, k, list, seenSet, searchPrefix, max) ==
    IF k > Len(extracted) THEN [items |-> list, seen |-> seenSet]
    ELSE LET partNumber == extracted[k]
         IN  IF ~startsWith(partNumber, searchPrefix) \/ seenHas(seenSet, partNumber)
             THEN AddExtracted(extracted, k + 1, list, seenSet, searchPrefix, max)
             ELSE LET pushed == Append(list, PartItem(partNumber, "search", searchPrefix))
                  IN  IF Len(pushed) >= max
                      THEN [items |-> pushed, seen |-> seenSet \cup {partNumber}]
                      ELSE AddExtracted(extracted, k + 1, pushed,
                                        seenSet \cup {partNumber}, searchPrefix, max)

RECURSIVE MergeSitemapItems(_, _, _, _, _)
\* for (const item of sitemapItems) { ... } of fetchParts.
MergeSitemapItems(sitemapItems, k, list, seenSet, max) ==
    IF k > Len(sitemapItems) THEN [items |-> list, seen |-> seenSet]
    ELSE LET item == sitemapItems[k]
         IN  IF seenHas(seenSet, item.partNumber)
             THEN MergeSitemapItems(sitemapItems, k + 1, list, seenSet, max)
             ELSE LET pushed == Append(list, item)
                  IN  IF Len(pushed) >= max
                      THEN [items |-> pushed, seen |-> seenSet \cup {item.partNumber}]
                      ELSE MergeSitemapItems(sitemapItems, k + 1, pushed,
                                             seenSet \cup {item.partNumber}, max)

RECURSIVE ProcessLocs(_, _, _, _, _, _, _, _)
\* for (const loc of locs) { ... } of collectPartsFromSitemap.
ProcessLocs(locs, k, queue, visitedSet, found, seenSet, prefixList, max) ==
    IF k > Len(locs)
    THEN [sitemapQueue |-> queue, foundItems |-> found, seenPartNumbers |-> seenSet]
    ELSE LET loc == locs[k]
             partNumber == extractPartNumberFromHref(loc, prefixList)
         IN  IF isSitemapUrl(loc)
             THEN ProcessLocs(locs, k + 1,
                              IF loc \notin visitedSet THEN Append(queue, loc) ELSE queue,
                              visitedSet, found, seenSet, prefixList, max)
             ELSE IF partNumber = <<>> \/ partNumber \in seenSet
             THEN ProcessLocs(locs, k + 1, queue, visitedSet, found, seenSet, prefixList, max)
             ELSE LET pushed == Append(found, PartItem(partNumber, "sitemap", <<>>))
                  IN  IF Len(pushed) >= max
                      THEN [sitemapQueue |-> queue, foundItems |-> pushed,
                            seenPartNumbers |-> seenSet \cup {partNumber}]
                      ELSE ProcessLocs(locs, k + 1, queue, visitedSet, pushed,
                                       seenSet \cup {partNumber}, prefixList, max)

\* isExcludedPartNumber: /^A0{10,}$/.test(partNumber)
isExcludedPartNumber(partNumber) ==
    /\ Len(partNumber) >= 11
    /\ partNumber[1] = "A"
    /\ \A i \in 2..Len(partNumber) : partNumber[i] = "0"

\* isAllowedPartNumber: prefixes.some((prefix) => partNumber.startsWith(prefix))
isAllowedPartNumber(partNumber, prefixList) ==
    \E j \in DOMAIN prefixList : startsWith(partNumber, prefixList[j])

\* export const DEFAULT_PREFIXES = ['A309', 'A310']
DEFAULT_PREFIXES == << <<"A","3","0","9">>, <<"A","3","1","0">> >>

\* The order localeCompare gives normalized part numbers: digits before
\* letters, a proper prefix before its extensions.
CollationOrder == <<"0","1","2","3","4","5","6","7","8","9">> \o UpperChars

CharRank(c) == CHOOSE i \in DOMAIN CollationOrder : CollationOrder[i] = c

localeCompareLess(a, b) ==
    \E i \in 1..(Min(Len(a), Len(b)) + 1) :
        /\ SubSeq(a, 1, i - 1) = SubSeq(b, 1, i - 1)
        /\ \/ i > Len(a) /\ i <= Len(b)
           \/ i <= Len(a) /\ i <= Len(b) /\ CharRank(a[i]) < CharRank(b[i])

RECURSIVE SortByPartNumber(_)
\* Array.from(dedup.values()).sort((l, r) => l.partNumber.localeCompare(r.partNumber))
SortByPartNumber(S) ==
    IF S = {} THEN <<>>
    ELSE LET m == CHOOSE x \in S :
                     \A y \in S \ {x} : localeCompareLess(x.partNumber, y.partNumber)
         IN  <<m>> \o SortByPartNumber(S \ {m})

\* A variant of the filter's test that forgets the placeholder exclusion.
FilterSkipsWithoutExclusion(partNumber, effectivePrefixes) ==
    partNumber = <<>> \/ ~isAllowedPartNumber(partNumber, effectivePrefixes)

\* if (!partNumber || isExcludedPartNumber(partNumber) || !isAllowedPartNumber(...)) continue
FilterSkips(partNumber, effectivePrefixes) ==
    \/ partNumber = <<>>
    \/ isExcludedPartNumber(partNumber)
    \/ ~isAllowedPartNumber(partNumber, effectivePrefixes)

RECURSIVE FilterLoop(_, _, _, _, _)
\* for (const item of items) { ... } of filterSnapshotItems; dedup is the set
\* of the Map's values (one per part number).
FilterLoop(list, k, dedup, effectivePrefixes, max) ==
    IF k > Len(list) THEN dedup
    ELSE LET partNumber == normalizePartNumber(list[k].partNumber)
         IN  IF \/ FilterSkips(partNumber, effectivePrefixes)
                \/ \E d \in dedup : d.partNumber = partNumber
             THEN FilterLoop(list, k + 1, dedup, effectivePrefixes, max)
             ELSE LET added == dedup \cup { [partNumber |-> partNumber,
                                             availability |-> list[k].availability] }
                  IN  IF Cardinality(added) >= max THEN added
                      ELSE FilterLoop(list, k + 1, added, effectivePrefixes, max)

filterSnapshotItems(list, prefixList, max) ==
    SortByPartNumber(FilterLoop(list, 1, {},
                                IF Len(prefixList) > 0 THEN prefixList ELSE DEFAULT_PREFIXES,
                                max))

\* What follows the search loops: the sitemap fallback when at most one item
\* was found and the limit is not reached, else enrichment or the return.
FinishPc == IF enrichDetails THEN "enrich" ELSE "done"

\* The search page URLs, as numbers.  `${MB_SEARCH_BASE}?search=${term}` of the
\* t-th search term of the p-th prefix is a URL of its own; 2..MaxPageUrls are
\* the further result pages the shop links or redirects to, whatever the term.
TermUrl(p, t) == MaxPageUrls + (p - 1) * 3 + t

\* The URL a Location header or a next link names: 1 stands for the first
\* page of the term being searched, any other number for itself.
SearchUrl(u) == IF u = 1 THEN TermUrl(prefixIdx, termIdx) ELSE u

\* A variant of AfterSearchStep that falls back to the sitemaps whenever at
\* most one item was found, the limit met or not.
AfterSearchStepFallbackAtLimit(url, visitedSet, count, n, broke) ==
    IF ~broke /\ url # <<>> /\ url[1] \notin visitedSet /\ n < limit /\ count < MAX_PAGES
    THEN [pc |-> "search", prefixIdx |-> prefixIdx, termIdx |-> termIdx,
          pageUrl |-> url, visited |-> visitedSet, pageCount |-> count]
    ELSE IF n < limit /\ termIdx < Len(searchTerms(prefixes[prefixIdx]))
    THEN [pc |-> "search", prefixIdx |-> prefixIdx, termIdx |-> termIdx + 1,
          pageUrl |-> <<TermUrl(prefixIdx, termIdx + 1)>>, visited |-> {}, pageCount |-> 0]
    ELSE IF n < limit /\ prefixIdx < Len(prefixes)
    THEN [pc |-> "search", prefixIdx |-> prefixIdx + 1, termIdx |-> 1,
          pageUrl |-> <<TermUrl(prefixIdx + 1, 1)>>, visited |-> {}, pageCount |-> 0]
    ELSE [pc |-> IF n <= 1 THEN "robots" ELSE FinishPc,
          prefixIdx |-> 1, termIdx |-> 1,
          pageUrl |-> <<>>, visited |-> {}, pageCount |-> 0]

\* A variant of AfterSearchStep whose while loop has no page-count ceiling.
AfterSearchStepNoCeiling(url, visitedSet, count, n, broke) ==
    IF ~broke /\ url # <<>> /\ url[1] \notin visitedSet /\ n < limit
    THEN [pc |-> "search", prefixIdx |-> prefixIdx, termIdx |-> termIdx,
          pageUrl |-> url, visited |-> visitedSet, pageCount |-> count]
    ELSE IF n < limit /\ termIdx < Len(searchTerms(prefixes[prefixIdx]))
    THEN [pc |-> "search", prefixIdx |-> prefixIdx, termIdx |-> termIdx + 1,
          pageUrl |-> <<TermUrl(prefixIdx, termIdx + 1)>>, visited |-> {}, pageCount |-> 0]
    ELSE IF n < limit /\ prefixIdx < Len(prefixes)
    THEN [pc |-> "search", prefixIdx |-> prefixIdx + 1, termIdx |-> 1,
          pageUrl |-> <<TermUrl(prefixIdx + 1, 1)>>, visited |-> {}, pageCount |-> 0]
    ELSE [pc |-> IF n <= 1 /\ n < limit THEN "robots" ELSE FinishPc,
          prefixIdx |-> 1, termIdx |-> 1,
          pageUrl |-> <<>>, visited |-> {}, pageCount |-> 0]

\* Where fetchParts awaits next after a search response has been handled:
\* the same while loop, the next search term, the next prefix, or past the
\* loops.  broke is TRUE when the handler left the while loop with break.
AfterSearchStep(url, visitedSet, count, n, broke) ==
    IF ~broke /\ url # <<>> /\ url[1] \notin visitedSet /\ n < limit /\ count < MAX_PAGES
    THEN [pc |-> "search", prefixIdx |-> prefixIdx, termIdx |-> termIdx,
          pageUrl |-> url, visited |-> visitedSet, pageCount |-> count]
    ELSE IF n < limit /\ termIdx < Len(searchTerms(prefixes[prefixIdx]))
    THEN [pc |-> "search", prefixIdx |-> prefixIdx, termIdx |-> termIdx + 1,
          pageUrl |-> <<TermUrl(prefixIdx, termIdx + 1)>>, visited |-> {}, pageCount |-> 0]
    ELSE IF n < limit /\ prefixIdx < Len(prefixes)
    THEN [pc |-> "search", prefixIdx |-> prefixIdx + 1, termIdx |-> 1,
          pageUrl |-> <<TermUrl(prefixIdx + 1, 1)>>, visited |-> {}, pageCount |-> 0]
    ELSE \* past the for loops, whose locals are gone
         [pc |-> IF n <= 1 /\ n < limit THEN "robots" ELSE FinishPc,
          prefixIdx |-> 1, termIdx |-> 1,
          pageUrl |-> <<>>, visited |-> {}, pageCount |-> 0]

\* A variant of the sitemap loop condition that ignores the budget.
SitemapLoopUnbudgeted(queue, visitedSet, found, remaining) ==
    /\ queue # <<>>
    /\ Cardinality(visitedSet) < maxSitemaps

\* while (sitemapQueue.length > 0 && visitedSitemaps.size < maxSitemaps &&
\*        foundItems.length < limit), limit being fetchParts' remaining.
SitemapLoopHolds(queue, visitedSet, found, remaining) ==
    /\ queue # <<>>
    /\ Cardinality(visitedSet) < maxSitemaps
    /\ Len(found) < remaining

\* A variant that never shifts a visited URL off the queue.
SkipNoSitemap(queue, visitedSet, found, remaining) == queue

RECURSIVE SkipVisitedSitemaps(_, _, _, _)
\* The iterations that shift an already visited URL and continue.
SkipVisitedSitemaps(queue, visitedSet, found, remaining) ==
    IF SitemapLoopHolds(queue, visitedSet, found, remaining) /\ Head(queue) \in visitedSet
    THEN SkipVisitedSitemaps(Tail(queue), visitedSet, found, remaining)
    ELSE queue

\* The crawler at rest.
CrawlIdle ==
    /\ crawlPc = "idle"
    /\ prefixes = <<>>
    /\ limit = 1
    /\ enrichDetails = FALSE
    /\ prefixIdx = 1
    /\ termIdx = 1
    /\ pageUrl = <<>>
    /\ visited = {}
    /\ pageCount = 0
    /\ seen = {}
    /\ items = <<>>
    /\ sitemapQueue = <<>>
    /\ visitedSitemaps = {}
    /\ foundItems = <<>>
    /\ seenPartNumbers = {}
    /\ filteredItems = <<>>
    /\ fetchedPages = {}
    /\ refetched = {}

\* fetchParts(prefixes, limit, { enrichDetails }) up to its first fetch.
CrawlStart ==
    /\ crawlPc = "search"
    /\ prefixes \in PrefixLists
    /\ limit \in 1..MaxLimit
    /\ enrichDetails \in BOOLEAN
    /\ prefixIdx = 1
    /\ termIdx = 1
    /\ pageUrl = <<TermUrl(1, 1)>>
    /\ visited = {}
    /\ pageCount = 0
    /\ seen = {}
    /\ items = <<>>
    /\ sitemapQueue = <<SitemapXml, SitemapIndexXml>>
    /\ visitedSitemaps = {}
    /\ foundItems = <<>>
    /\ seenPartNumbers = {}
    /\ filteredItems = <<>>
    /\ fetchedPages = {}
    /\ refetched = {}

\* The assignments every search step makes from its AfterSearchStep result.
SearchStepTo(adv) ==
    /\ fetchedPages' = IF adv.pc = "search" THEN fetchedPages \cup {pageUrl[1]} ELSE {}
    /\ refetched' = IF pageUrl[1] \in fetchedPages THEN {"search"} ELSE {}
    /\ crawlPc' = adv.pc
    /\ prefixIdx' = adv.prefixIdx
    /\ termIdx' = adv.termIdx
    /\ pageUrl' = adv.pageUrl
    /\ visited' = adv.visited
    /\ pageCount' = adv.pageCount

\* A search fetch answered 3xx.  location is <<>> (no Location header: break),
\* <<0>> (a URL without /search, such as a product page: break) or <<u>>, the
\* search page URL u (continue with it).
SearchRedirect(location) ==
    /\ crawlPc = "search"
    /\ LET cur == pageUrl[1]
           broke == location = <<>> \/ location[1] = 0
       IN  SearchStepTo(AfterSearchStep(IF broke THEN pageUrl ELSE <<SearchUrl(location[1])>>,
                                        visited \cup {cur}, pageCount + 1,
                                        Len(items), broke))
    /\ UNCHANGED <<prefixes, limit, enrichDetails, seen, items, sitemapQueue,
                   visitedSitemaps, foundItems, seenPartNumbers, filteredItems,
                   chunkVars, refreshVars, extractVars, overlapVars, normalizeVars, poolVars, buildVars, migrateVars, cacheVars, clientVars>>

\* A search fetch answered with a non-redirect, non-ok status: fetchParts
\* throws, and nothing it collected is returned.
SearchFailed ==
    /\ crawlPc = "search"
    /\ crawlPc' = "failed"
    /\ prefixIdx' = 1
    /\ termIdx' = 1
    /\ pageUrl' = <<>>
    /\ visited' = {}
    /\ pageCount' = 0
    /\ seen' = {}
    /\ items' = <<>>
    /\ fetchedPages' = {}
    /\ refetched' = IF pageUrl[1] \in fetchedPages THEN {"search"} ELSE {}
    /\ UNCHANGED <<prefixes, limit, enrichDetails, sitemapQueue, visitedSitemaps,
                   foundItems, seenPartNumbers, filteredItems, chunkVars, refreshVars, extractVars, overlapVars, normalizeVars, poolVars, buildVars, migrateVars, cacheVars, clientVars>>

\* A search fetch answered with a page listing skus and linking to one of
\* links.
SearchPage(skus, links) ==
    /\ crawlPc = "search"
    /\ LET cur == pageUrl[1]
           searchPrefix == prefixes[prefixIdx]
           extracted == extractItemsFromHtml(skus, <<searchPrefix>>)
           added == AddExtracted(extracted, 1, items, seen, searchPrefix, limit)
       IN  /\ items' = added.items
           /\ seen' = added.seen
           /\ \E next \in links :
                 SearchStepTo(AfterSearchStep(findNextPageUrl(IF next = <<>> THEN <<>>
                                                               ELSE <<SearchUrl(next[1])>>, cur),
                                              visited \cup {cur}, pageCount + 1,
                                              Len(added.items), FALSE))
    /\ UNCHANGED <<prefixes, limit, enrichDetails, sitemapQueue, visitedSitemaps,
                   foundItems, seenPartNumbers, filteredItems, chunkVars, refreshVars, extractVars, overlapVars, normalizeVars, poolVars, buildVars, migrateVars, cacheVars, clientVars>>

\* The assignments a sitemap step makes once locs are processed: skip visited
\* queue heads, and either await the next sitemap fetch or return foundItems
\* to fetchParts, which merges them into items.
SitemapStepTo(queue, visitedSet, found, seenSet) ==
    LET remaining == limit - Len(items)
        rest == SkipVisitedSitemaps(queue, visitedSet, found, remaining)
        merged == MergeSitemapItems(found, 1, items, seen, limit)
    IN  /\ foundItems' = found
        /\ IF SitemapLoopHolds(rest, visitedSet, found, remaining)
           THEN /\ crawlPc' = "sitemap"
                /\ sitemapQueue' = rest
                /\ visitedSitemaps' = visitedSet
                /\ seenPartNumbers' = seenSet
                /\ UNCHANGED <<items, seen>>
           ELSE \* return foundItems; the other locals are gone
                /\ crawlPc' = FinishPc
                /\ sitemapQueue' = <<>>
                /\ visitedSitemaps' = {}
                /\ seenPartNumbers' = {}
                /\ items' = merged.items
                /\ seen' = merged.seen

\* collectPartsFromSitemap: robots.txt fetched, its Sitemap: lines queued.
SitemapRobots(robots) ==
    /\ crawlPc = "robots"
    /\ SitemapStepTo(sitemapQueue \o robots, visitedSitemaps, foundItems, seenPartNumbers)
    /\ refetched' = {}
    /\ UNCHANGED <<prefixes, limit, enrichDetails, prefixIdx, termIdx, pageUrl,
                   visited, pageCount, filteredItems, fetchedPages,
                   chunkVars, refreshVars, extractVars, overlapVars, normalizeVars, poolVars, buildVars, migrateVars, cacheVars, clientVars>>

\* collectPartsFromSitemap: the sitemap at the head of the queue fetched; xml
\* is <<>> when the fetch fails, else <<locs>>.
SitemapFetch(xml) ==
    /\ crawlPc = "sitemap"
    /\ LET sitemapUrl == Head(sitemapQueue)
           visitedSet == visitedSitemaps \cup {sitemapUrl}
           done == IF xml = <<>>
                   THEN [sitemapQueue |-> Tail(sitemapQueue), foundItems |-> foundItems,
                         seenPartNumbers |-> seenPartNumbers]
                   ELSE ProcessLocs(xml[1], 1, Tail(sitemapQueue), visitedSet, foundItems,
                                    seenPartNumbers, prefixes, limit - Len(items))
       IN  /\ SitemapStepTo(done.sitemapQueue, visitedSet, done.foundItems,
                            done.seenPartNumbers)
           /\ refetched' = IF sitemapUrl \in visitedSitemaps THEN {"sitemap"} ELSE {}
    /\ UNCHANGED <<prefixes, limit, enrichDetails, prefixIdx, termIdx, pageUrl,
                   visited, pageCount, filteredItems, fetchedPages,
                   chunkVars, refreshVars, extractVars, overlapVars, normalizeVars, poolVars, buildVars, migrateVars, cacheVars, clientVars>>

\* enrichItemsFromProductPage(items): every item's detail page fetched, its
\* availability overwritten; fetchParts returns.
EnrichItems ==
    /\ crawlPc = "enrich"
    /\ \E results \in [DOMAIN items -> DetailOutcomes] :
          items' = [i \in DOMAIN items |-> [items[i] EXCEPT !.availability = results[i]]]
    /\ crawlPc' = "done"
    /\ UNCHANGED <<prefixes, limit, enrichDetails, prefixIdx, termIdx, pageUrl, visited,
                   pageCount, seen, sitemapQueue, visitedSitemaps, foundItems,
                   seenPartNumbers, filteredItems, fetchedPages, refetched,
                   chunkVars, refreshVars, extractVars, overlapVars, normalizeVars, poolVars, buildVars, migrateVars, cacheVars, clientVars>>

\* syncBaseSnapshot stores what fetchParts (enrichDetails: false) returned,
\* and the /api/sync handler answers a request from that snapshot through
\* filterSnapshotItems.
\* The request asks for any of the prefix lists or for none
\* (DEFAULT_PREFIXES), and for any limit.
FilterSnapshot ==
    /\ crawlPc = "done"
    /\ ~enrichDetails
    /\ \E requestPrefixes \in PrefixLists \cup {<<>>}, requestLimit \in 1..MaxLimit :
          filteredItems' = filterSnapshotItems(items, requestPrefixes, requestLimit)
    /\ crawlPc' = "served"
    /\ UNCHANGED <<prefixes, limit, enrichDetails, prefixIdx, termIdx, pageUrl, visited,
                   pageCount, seen, items, sitemapQueue, visitedSitemaps, foundItems,
                   seenPartNumbers, fetchedPages, refetched, chunkVars, refreshVars, extractVars, overlapVars, normalizeVars, poolVars, buildVars, migrateVars, cacheVars, clientVars>>

CrawlNext ==
    \/ \E location \in {<<>>} \cup { <<u>> : u \in 0..MaxPageUrls } : SearchRedirect(location)
    \/ SearchFailed
    \/ \E skus \in PageSkus : SearchPage(skus, {<<>>} \cup { <<u>> : u \in 1..MaxPageUrls })
    \/ \E robots \in RobotsSitemaps : SitemapRobots(robots)
    \/ \E xml \in {<<>>} \cup { <<locs>> : locs \in SitemapLocs } : SitemapFetch(xml)
    \/ EnrichItems
    \/ FilterSnapshot

(***************************************************************************)
(* Crawler: a run against a server with endless pages and sitemaps         *)
(***************************************************************************)
\* A search page URL no fetch of the run has named yet: the server can go on
\* answering with such URLs for ever.
FreshPageUrl == TermUrl(Len(prefixes) + 1, 1) + pageCount

\* The result pages of such a server: no product, or two.
TraversePages ==
    { <<>>, << <<"A","3","0","9"," ","1","2","3">>, <<"A","3","1","0","4","5","6">> >> }

\* A sitemap URL no sitemap of the run has named yet: /sm<n>.xml, n being
\* the number of sitemap URLs fetched or queued so far.
FreshSitemapUrl ==
    LET n == Cardinality(visitedSitemaps \cup { sitemapQueue[k] : k \in DOMAIN sitemapQueue })
        Digit(d) == CollationOrder[d + 1]
    IN  <<"/","s","m", Digit(n \div 100), Digit((n \div 10) % 10), Digit(n % 10),
          ".","x","m","l">>

\* The product <loc> values of such a server's sitemaps: none, or two.
TraverseLocs ==
    { <<>>,
      << <<"/","p","/","a","3","0","9","-","1","2","3">>,
         <<"/","p","/","A","3","1","0","4","5","6","/","x">> >> }

\* fetchParts called for the base snapshot, for one prefix or for two.
TraverseStart ==
    /\ CrawlStart
    /\ ~enrichDetails
    /\ prefixes \in { << <<"A","3","0","9">> >>, << <<"A","3","0","9">>, <<"A","3","1","0">> >> }

\* The server's first pages of a term answer in any way; the pages after
\* them go on for ever.
FirstPages == pageCount < MaxPageUrls

\* A 3xx answer whose Location is a search page not named before.
SearchRedirectFresh == SearchRedirect(<<FreshPageUrl>>)

\* A result page whose next link is a search page not named before.
SearchPageFresh(skus) == SearchPage(skus, {<<FreshPageUrl>>})

\* A sitemap that names a sitemap not named before, and products.
SitemapFetchFresh(products) == SitemapFetch(<< <<FreshSitemapUrl>> \o products >>)

\* The other answers: no Location, a product page, a redirect or a next link
\* back to the term's first page, no next link, a failure; a robots.txt, a
\* sitemap that cannot be fetched or names products only.
TraverseNext ==
    \/ \E robots \in RobotsSitemaps : SitemapRobots(robots)
    \/ \E xml \in {<<>>} \cup { <<locs>> : locs \in TraverseLocs } : SitemapFetch(xml)
    \/ \E products \in TraverseLocs : SitemapFetchFresh(products)
    \/ FirstPages /\ \E location \in {<<>>, <<0>>, <<1>>} : SearchRedirect(location)
    \/ SearchRedirectFresh
    \/ SearchFailed
    \/ FirstPages /\ \E skus \in TraversePages : SearchPage(skus, {<<>>, <<1>>})
    \/ \E skus \in TraversePages : SearchPageFresh(skus)

(***************************************************************************)
(* Enrichment Refresher: direct mode, base-snapshot replacement and failed *)
(* reads of the price snapshot                                             *)
(***************************************************************************)
\* The longest part-number list a direct-mode request carries.
MaxRequest == 2

\* ).slice(0, 100) of enrichVisiblePartNumbers
DirectCap == 100

\* The part numbers clients ask for, as they spell them: items of the catalog,
\* a second spelling of the first, a part number that is not in the catalog,
\* and a value that normalizes to the empty string.
RequestStream ==
    << <<"A","3","0","9","1","2","3","4","5","6","7">>,
       <<"a","3","0","9"," ","1","2","3","-","4","5","6","7">>,
       <<"A","3","1","0","1","2","3","4","5","6","7">>,
       <<"A","3","0","9","1","2","3","4","5","6","7">>,
       <<"B","9","9","9">>,
       <<"-">>,
       <<"A","3","0","9","0","0","0","0","0","0","1">> >>

\* A request carries up to MaxRequest consecutive values of the stream.
RequestLists ==
    { SubSeq(RequestStream, i, j) :
        i \in DOMAIN RequestStream,
        j \in 0..Len(RequestStream) } \cap
    UNION { [1..n -> { RequestStream[i] : i \in DOMAIN RequestStream }] : n \in 0..MaxRequest }

\* A variant of the de-duplication that keeps every non-empty value.
uniqueNormalizedKeepingRepeats(partNumbers) ==
    SelectSeq([k \in DOMAIN partNumbers |-> normalizePartNumber(partNumbers[k])],
              LAMBDA pn : pn # <<>>)

\* Array.from(new Set(partNumbers.map(normalizePartNumber).filter(Boolean))):
\* the normalized non-empty values in order of first occurrence.
uniqueNormalized(partNumbers) ==
    LET values == SelectSeq([k \in DOMAIN partNumbers |-> normalizePartNumber(partNumbers[k])],
                            LAMBDA pn : pn # <<>>)
        firsts == { k \in DOMAIN values : values[k] \notin { values[j] : j \in 1..(k - 1) } }
    IN  SelectSeq([k \in DOMAIN values |-> IF k \in firsts THEN values[k] ELSE <<>>],
                  LAMBDA pn : pn # <<>>)

\* uniquePartNumbers.map((pn) => byPartNumber.get(pn)).filter(Boolean): the
\* requested part numbers among keys, the part numbers the Map has an item for.
targetsOf(unique, keys) == SelectSeq(unique, LAMBDA pn : pn \in keys)

\* new Map(snapshot.items.map((item) => [item.partNumber, item])): its keys.
byPartNumberKeys(catalog) == { catalog[i].partNumber : i \in DOMAIN catalog }

\* priceSnapshot.prices[partNumber] = { price, availability, updatedAt } for
\* each target, details[k] being the k-th target's fetch result.
WriteDetails(priceMap, targets, details, nowDay) ==
    [pn \in DOMAIN priceMap \cup Range(targets) |->
        IF pn \in Range(targets)
        THEN LET k == CHOOSE k \in DOMAIN targets :
                          /\ targets[k] = pn
                          /\ \A j \in DOMAIN targets : targets[j] = pn => j <= k
             IN  PriceEntry(details[k].price, details[k].availability, <<nowDay>>)
        ELSE priceMap[pn]]

\* The results of n detail fetches, in order: every combination for a short
\* batch; for a long one all alike, or all alike but a failed first fetch.
DetailResultsFor(n) ==
    IF n <= MaxRequest THEN [1..n -> FetchOutcomes]
    ELSE { [k \in 1..n |-> o] : o \in FetchOutcomes } \cup
         { [k \in 1..n |-> IF k = 1 THEN FetchFailed ELSE o] : o \in FetchOutcomes }

\* POST /api/enrich-visible: enrichVisiblePartNumbers(partNumbers), run to
\* completion; stored is what readPriceSnapshot() returned.
EnrichVisibleOn(stored, partNumbers) ==
    /\ calls < MaxCalls
    /\ LET unique  == slice0(uniqueNormalized(partNumbers), DirectCap)
           targets == targetsOf(unique, byPartNumberKeys(baseItems))
       IN  IF targets = <<>>
           THEN \* return { updated: 0, entries: {} }
                /\ lastSelected' = <<>>
                /\ lastResults' = <<>>
                /\ UNCHANGED prices
           ELSE \E details \in DetailResultsFor(Len(targets)) :
                   /\ prices' = WriteDetails(stored, targets, details, now)
                   /\ lastSelected' = targets
                   /\ lastResults' = details
    /\ calls' = calls + 1
    /\ lastKind' = "direct"
    /\ lastRequest' = partNumbers
    /\ UNCHANGED <<baseItems, cursorFile, mergedGeneratedAt, now, batchSize, initPrices,
                   startCursor, scanned, catalogReplaced, chunkVars, crawlVars, extractVars, overlapVars, normalizeVars, poolVars, buildVars, migrateVars, cacheVars, clientVars>>

\* POST /api/enrich-visible with the price snapshot read from its file.
EnrichVisible ==
    \E partNumbers \in RequestLists : EnrichVisibleOn(prices, partNumbers)

\* POST /api/enrich-visible when readPriceSnapshot() falls back to an empty
\* prices map (readFile or JSON.parse threw) although targets were found.
EnrichVisibleReadFailed ==
    \E partNumbers \in RequestLists :
        /\ targetsOf(uniqueNormalized(partNumbers), byPartNumberKeys(baseItems)) # <<>>
        /\ EnrichVisibleOn(<<>>, partNumbers)

\* POST /api/sync-prices when readPriceSnapshot() falls back to an empty map.
SyncPriceBatchReadFailed == SyncPriceBatchOn(<<>>)

\* The sync-prices script when readJson falls back to { prices: {} }.
PriceSyncMainReadFailed == PriceSyncMainOn(<<>>)

\* GET /api/sync-parts: syncBaseSnapshot writes the base snapshot anew from a
\* crawl that found m items, sorted by part number, and writes no other file.
ReplaceBaseSnapshot(m) ==
    /\ calls < MaxCalls
    /\ baseItems' = SortByPartNumber({ Catalog(m)[i] : i \in 1..m })
    /\ catalogReplaced' = TRUE
    /\ calls' = calls + 1
    /\ lastKind' = "replace"
    /\ lastRequest' = <<>>
    /\ lastSelected' = <<>>
    /\ lastResults' = <<>>
    /\ UNCHANGED <<prices, cursorFile, mergedGeneratedAt, now, batchSize, initPrices,
                   startCursor, scanned, chunkVars, crawlVars, extractVars, overlapVars, normalizeVars, poolVars, buildVars, migrateVars, cacheVars, clientVars>>

\* The snapshots a run with direct-mode requests and replacements starts
\* from: a full catalog whose items have no entry or each a stale entry with a
\* price and a confident status, no cursor file or the last index, and the
\* largest batch size.
EnrichStart ==
    /\ baseItems = Catalog(MaxItems)
    /\ prices \in { <<>>,
                    [pn \in { baseItems[i].partNumber : i \in DOMAIN baseItems } |->
                        PriceEntry(<<"7,50 EUR">>, "out_of_stock", <<0>>)] }
    /\ cursorFile \in {<<>>, <<Len(baseItems) - 1>>}
    /\ mergedGeneratedAt = <<>>
    /\ now = StartDay
    /\ batchSize = MaxBatch
    /\ initPrices = prices
    /\ startCursor = IF cursorFile = <<>> THEN 0 ELSE cursorFile[1]
    /\ calls = 0
    /\ scanned = {}
    /\ lastSelected = <<>>
    /\ lastKind = "none"
    /\ lastRequest = <<>>
    /\ lastResults = <<>>
    /\ catalogReplaced = FALSE

EnrichNext ==
    \/ SyncPriceBatch
    \/ PriceSyncMain
    \/ EnrichVisible
    \/ EnrichVisibleReadFailed
    \/ SyncPriceBatchReadFailed
    \/ PriceSyncMainReadFailed
    \/ \E m \in 0..MaxItems : ReplaceBaseSnapshot(m)

(***************************************************************************)
(* Enrichment Refresher: one direct-mode request on a long catalog, through *)
(* the dev server and through the two serverless functions                 *)
(***************************************************************************)
\* The catalog holds DirectCap + MaxOver items and a request names up to as
\* many distinct part numbers.
MaxOver == 2

\* parseBatch(url.searchParams.get('batch'), 100, 300) of the sync-prices function
HandlerBatchDefault == 100

HandlerBatchCap == 300

\* The i-th part number of the long catalog: A309 and seven digits.
LongPartNumber(i) ==
    <<"A","3","0","9">> \o
    [k \in 1..7 |-> <<"0","1","2","3","4","5","6","7","8","9">>[((i \div (10 ^ (7 - k))) % 10) + 1]]

LongCatalog == [i \in 1..(DirectCap + MaxOver) |-> BaseItem(LongPartNumber(i))]

\* A request for the first n part numbers of the long catalog; with repeats,
\* each is followed by a lower-case spelling of itself with a blank in it.
LongRequest(n, repeats) ==
    IF ~repeats THEN [k \in 1..n |-> LongPartNumber(k)]
    ELSE [k \in 1..(2 * n) |->
            IF k % 2 = 1 THEN LongPartNumber((k + 1) \div 2)
            ELSE <<"a","3","0","9"," ">> \o SubSeq(LongPartNumber(k \div 2), 5, 11)]

DirectRequests ==
    (RequestLists \ {<<>>}) \cup
    { LongRequest(n, repeats) : n \in (DirectCap - 1)..(DirectCap + MaxOver),
                                repeats \in BOOLEAN }

\* The batch query parameter: absent (<<>>) or a number.
BatchParams == { <<>>, <<0>>, <<DirectCap \div 2>>, <<DirectCap + MaxOver>>,
                 <<HandlerBatchCap + MaxOver>> }

\* parseBatch(value, defaultBatch, maxBatch)
parseBatch(value, defaultBatch, maxBatch) ==
    IF value = <<>> \/ value[1] <= 0 THEN defaultBatch ELSE Min(value[1], maxBatch)

\* The keys of new Map(filterSnapshotItems(snapshot.items, DEFAULT_PREFIXES,
\* Number.MAX_SAFE_INTEGER).map((item) => [item.partNumber, item])): with that
\* max the filter never cuts, so these are the normalized part numbers of the
\* snapshot which the filter does not skip.
filteredPartNumberKeys(catalog) ==
    { pn \in { normalizePartNumber(catalog[i].partNumber) : i \in DOMAIN catalog } :
        ~FilterSkips(pn, DEFAULT_PREFIXES) }

\* What the two serverless functions share: the targets of a part-number list
\* cut to cap, looked up in the filtered base snapshot, and enrichItems on
\* them.  The functions return the entries and write no file.
HandlerEnrich(kind, partNumbers, cap) ==
    /\ calls < MaxCalls
    /\ LET unique  == slice0(uniqueNormalized(partNumbers), cap)
           targets == targetsOf(unique, filteredPartNumberKeys(baseItems))
       IN  \E details \in DetailResultsFor(Len(targets)) :
               /\ lastSelected' = targets
               /\ lastResults' = details
    /\ calls' = calls + 1
    /\ lastKind' = kind
    /\ lastRequest' = partNumbers
    /\ UNCHANGED <<baseItems, prices, cursorFile, mergedGeneratedAt, now, batchSize,
                   initPrices, startCursor, scanned, catalogReplaced, chunkVars, crawlVars, extractVars, overlapVars, normalizeVars, poolVars, buildVars, migrateVars, cacheVars, clientVars>>

\* The enrich-visible function's handler(event) for a POST with a list.
EnrichVisibleHandler ==
    \E partNumbers \in DirectRequests :
        /\ lastKind = "none"
        /\ HandlerEnrich("direct_function", partNumbers, DirectCap)

\* The sync-prices function's handler(event) for a POST whose body carries a
\* non-empty partNumbers list (without one it takes the rotating branch).
SyncPricesHandlerList ==
    \E partNumbers \in DirectRequests, batch \in BatchParams :
        /\ lastKind = "none"
        /\ filteredPartNumberKeys(baseItems) # {}
        /\ HandlerEnrich("direct_sync_function", partNumbers,
                         parseBatch(batch, HandlerBatchDefault, HandlerBatchCap))

\* The dev server's /api/enrich-visible for the same requests.
EnrichVisibleLong ==
    \E partNumbers \in DirectRequests :
        /\ lastKind = "none"
        /\ EnrichVisibleOn(prices, partNumbers)

\* A long catalog with no prices yet.
DirectStart ==
    /\ baseItems = LongCatalog
    /\ prices = <<>>
    /\ cursorFile = <<>>
    /\ mergedGeneratedAt = <<>>
    /\ now = StartDay
    /\ batchSize = 1
    /\ initPrices = prices
    /\ startCursor = 0
    /\ calls = 0
    /\ scanned = {}
    /\ lastSelected = <<>>
    /\ lastKind = "none"
    /\ lastRequest = <<>>
    /\ lastResults = <<>>
    /\ catalogReplaced = FALSE

\* A run serves one request, the first since the server started, through one
\* of the three entry points.
DirectNext ==
    \/ EnrichVisibleLong
    \/ EnrichVisibleHandler
    \/ SyncPricesHandlerList

(***************************************************************************)
(* Enrichment Refresher: invocations of the dev server that overlap        *)
(***************************************************************************)
\* An invocation that is not running.
NoInvocation ==
    [pc |-> "idle", kind |-> "none", stored |-> <<>>, nextCursor |-> 0,
     targets |-> <<>>, overlapped |-> FALSE]

\* An invocation suspended at its detail fetches, after its reads.
Fetching(kind, stored, nextCursor, targets) ==
    [pc |-> "fetching", kind |-> kind, stored |-> stored, nextCursor |-> nextCursor,
     targets |-> targets, overlapped |-> FALSE]

\* No refresher invocation is modelled as suspended.
OverlapIdle ==
    /\ pending = <<>>
    /\ lost = {}

\* enrichVisiblePartNumbers(partNumbers) up to its detail fetches: the base
\* snapshot and the price snapshot are read and the targets chosen; readOk
\* is FALSE when readPriceSnapshot() fell back to an empty map.  With no
\* target it returns at once.
EnrichVisibleRead(s, partNumbers, readOk) ==
    /\ calls < MaxCalls
    /\ pending[s].pc = "idle"
    /\ LET unique  == slice0(uniqueNormalized(partNumbers), DirectCap)
           targets == targetsOf(unique, byPartNumberKeys(baseItems))
           stored  == IF readOk THEN prices ELSE <<>>
       IN  pending' = IF targets = <<>> THEN pending
                      ELSE [pending EXCEPT ![s] = Fetching("direct", stored, 0, targets)]
    /\ calls' = calls + 1
    /\ UNCHANGED <<baseItems, prices, cursorFile, mergedGeneratedAt, now, batchSize,
                   initPrices, startCursor, scanned, lastSelected, lastKind,
                   lastRequest, lastResults, catalogReplaced, lost,
                   chunkVars, crawlVars, extractVars, normalizeVars, poolVars, buildVars, migrateVars, cacheVars, clientVars>>

\* syncPriceBatch(batchSize) up to its detail fetches: the base snapshot, the
\* price snapshot and the cursor state are read and the candidates selected.
SyncPriceBatchRead(s, readOk) ==
    /\ calls < MaxCalls
    /\ pending[s].pc = "idle"
    /\ LET catalog == baseItems
           total   == Len(catalog)
           cursor  == SyncStartCursor(cursorFile, total)
           stored  == IF readOk THEN prices ELSE <<>>
           fresh   == FreshSet(catalog, LAMBDA pn : IsCandidate(stored, pn, now))
           scan    == ScanLoop(catalog, fresh, cursor, normalizedBatch(batchSize), 0, <<>>, {})
           cands   == scan.candidateIndexes
       IN  pending' = IF total = 0 THEN pending
                      ELSE [pending EXCEPT ![s] =
                               Fetching("rotating", stored, NextCursor(cands, cursor, total),
                                        PartNumbersAt(catalog, cands))]
    /\ calls' = calls + 1
    /\ UNCHANGED <<baseItems, prices, cursorFile, mergedGeneratedAt, now, batchSize,
                   initPrices, startCursor, scanned, lastSelected, lastKind,
                   lastRequest, lastResults, catalogReplaced, lost,
                   chunkVars, crawlVars, extractVars, normalizeVars, poolVars, buildVars, migrateVars, cacheVars, clientVars>>

\* The rest of an invocation: the detail fetches settle, the entries are set
\* in the prices map the invocation read, and the whole map is written to the
\* price snapshot file (a rotating batch writes its cursor state as well).
SnapshotWrite(s) ==
    /\ pending[s].pc = "fetching"
    /\ \E details \in DetailResultsFor(Len(pending[s].targets)) :
          LET written   == WriteDetails(pending[s].stored, pending[s].targets, details, now)
              others    == DOMAIN prices \ Range(pending[s].targets)
              discarded == \E pn \in others : pn \notin DOMAIN written \/ written[pn] # prices[pn]
          IN  /\ prices' = written
              /\ lost' = IF ~discarded THEN lost
                         ELSE lost \cup {IF pending[s].overlapped THEN "overlap"
                                         ELSE "sequential"}
              /\ lastSelected' = pending[s].targets
              /\ lastResults' = details
    /\ lastKind' = pending[s].kind
    /\ lastRequest' = <<>>
    /\ IF pending[s].kind = "rotating"
       THEN cursorFile' = <<pending[s].nextCursor>> /\ catalogReplaced' = FALSE
       ELSE UNCHANGED <<cursorFile, catalogReplaced>>
    /\ pending' = [t \in DOMAIN pending |->
                      IF t = s THEN NoInvocation
                      ELSE IF pending[t].pc = "fetching"
                           THEN [pending[t] EXCEPT !.overlapped = TRUE]
                           ELSE pending[t]]
    /\ UNCHANGED <<baseItems, mergedGeneratedAt, now, batchSize, initPrices,
                   startCursor, calls, scanned, chunkVars, crawlVars, extractVars,
                   normalizeVars, poolVars, buildVars, migrateVars, cacheVars, clientVars>>

\* The dev server with MaxCalls requests to come.
OverlapStart ==
    /\ EnrichStart
    /\ pending = [s \in 1..MaxCalls |-> NoInvocation]
    /\ lost = {}

OverlapNext ==
    \/ \E s \in 1..MaxCalls, partNumbers \in RequestLists, readOk \in BOOLEAN :
          EnrichVisibleRead(s, partNumbers, readOk)
    \/ \E s \in 1..MaxCalls, readOk \in BOOLEAN : SyncPriceBatchRead(s, readOk)
    \/ \E s \in 1..MaxCalls : SnapshotWrite(s)

(***************************************************************************)
(* Normalizer: normalizePartNumber applied to its own result              *)
(***************************************************************************)
\* The longest raw value.
MaxRawLen == 3

\* The characters raw values are made of: letters of both cases, a digit,
\* separators, and letters String.prototype.toUpperCase maps outside a-z.
RawChars == {"a", "Z", "3", "-", " ", "ß", "ü"}

\* The raw values: every string of up to MaxRawLen characters (null and
\* undefined are the empty one).
RawValues == UNION { [1..n -> RawChars] : n \in 0..MaxRawLen }

\* normalizePartNumber is not being called.
NormalizeIdle ==
    /\ normPc = "idle"
    /\ raw = <<>>
    /\ once = <<>>
    /\ twice = <<>>

NormalizeStart ==
    /\ normPc = "raw"
    /\ raw \in RawValues
    /\ once = <<>>
    /\ twice = <<>>

\* const partNumber = normalizePartNumber(raw)
NormalizeOnce ==
    /\ normPc = "raw"
    /\ normPc' = "once"
    /\ once' = normalizePartNumber(raw)
    /\ UNCHANGED <<raw, twice, chunkVars, refreshVars, crawlVars, extractVars, overlapVars,
                 poolVars, buildVars, migrateVars, cacheVars, clientVars>>

\* normalizePartNumber(partNumber), as getPartPrefix4 and the readers of a
\* stored part number call it on a normalized value.
NormalizeAgain ==
    /\ normPc = "once"
    /\ normPc' = "twice"
    /\ twice' = normalizePartNumber(once)
    /\ UNCHANGED <<raw, once, chunkVars, refreshVars, crawlVars, extractVars, overlapVars,
                 poolVars, buildVars, migrateVars, cacheVars, clientVars>>

NormalizeNext == NormalizeOnce \/ NormalizeAgain

(***************************************************************************)
(* Enrichment passes: the chunked detail fetches                           *)
(***************************************************************************)
\* const AVAILABILITY_FETCH_CONCURRENCY = 8 (dev server)
AVAILABILITY_FETCH_CONCURRENCY == 8

\* PART_PRICE_CONCURRENCY ?? '6' (sync-prices script); the serverless helpers
\* use the same number.
CONCURRENCY == 6

\* The longest queue of a pass.
MaxQueue == 10

\* A variant of the slice that takes one item more.
ChunkOfOneMore(start, size, len) == { k \in 1..len : start < k /\ k <= start + size + 1 }

\* queue.slice(i, i + size): the items of the chunk that starts at index i.
ChunkOf(start, size, len) == { k \in 1..len : start < k /\ k <= start + size }

\* No enrichment pass is running.
PoolIdle ==
    /\ passPc = "idle"
    /\ concurrency = 1
    /\ queueLen = 0
    /\ chunkStart = 0
    /\ inFlight = {}
    /\ settled = {}

\* A pass is entered with its queue: enrichItemsFromProductPage and the two
\* refresher loops of the dev server, or the script's and the serverless
\* helpers' loop.
PoolStart ==
    /\ passPc = "loop"
    /\ concurrency \in {AVAILABILITY_FETCH_CONCURRENCY, CONCURRENCY}
    /\ queueLen \in 0..MaxQueue
    /\ chunkStart = 0
    /\ inFlight = {}
    /\ settled = {}

\* chunk.map((item) => fetchProductDetailMeta(item.url)): the loop condition
\* holds and the fetches of the chunk are started; the pass awaits
\* Promise.all of them.
DispatchChunk ==
    /\ passPc = "loop"
    /\ chunkStart < queueLen
    /\ inFlight' = ChunkOf(chunkStart, concurrency, queueLen)
    /\ passPc' = "await"
    /\ UNCHANGED <<concurrency, queueLen, chunkStart, settled, chunkVars, refreshVars, crawlVars,
                   extractVars, overlapVars, normalizeVars, buildVars, migrateVars, cacheVars, clientVars>>

\* One fetch of the chunk settles; fetchProductDetailMeta resolves whatever
\* the outcome.
FetchSettles(k) ==
    /\ passPc = "await"
    /\ k \in inFlight
    /\ inFlight' = inFlight \ {k}
    /\ settled' = settled \cup {k}
    /\ UNCHANGED <<passPc, concurrency, queueLen, chunkStart, chunkVars, refreshVars, crawlVars,
                   extractVars, overlapVars, normalizeVars, buildVars, migrateVars, cacheVars, clientVars>>

\* Promise.all resolves once every fetch of the chunk has settled: the
\* results are stored and the loop goes on with i += size.
ChunkDone ==
    /\ passPc = "await"
    /\ inFlight = {}
    /\ chunkStart' = chunkStart + concurrency
    /\ passPc' = "loop"
    /\ UNCHANGED <<concurrency, queueLen, inFlight, settled, chunkVars, refreshVars,
                   crawlVars, extractVars, overlapVars, normalizeVars, buildVars, migrateVars, cacheVars, clientVars>>

\* The loop condition fails: the pass is over.
PassDone ==
    /\ passPc = "loop"
    /\ chunkStart >= queueLen
    /\ passPc' = "done"
    /\ UNCHANGED <<concurrency, queueLen, chunkStart, inFlight, settled, chunkVars, refreshVars,
                   crawlVars, extractVars, overlapVars, normalizeVars, buildVars, migrateVars, cacheVars, clientVars>>

PoolNext ==
    \/ DispatchChunk
    \/ \E k \in 1..MaxQueue : FetchSettles(k)
    \/ ChunkDone
    \/ PassDone

(***************************************************************************)
(* Crawler: one call of the page extractor                                 *)
(***************************************************************************)
\* The sku of the Product block of a page such as
\* <script type="application/ld+json">{"@type":"Product","sku":"a309-999"}</script>.
ExampleSku == <<"a","3","0","9","-","9","9","9">>

\* The pages the extractor is given: no product containers, no anchors, and
\* up to three JSON-LD Product blocks.
ExtractPages ==
    LET pool == SkuPool \cup {ExampleSku}
    IN  PageSkus \cup { <<a>> : a \in pool } \cup { <<a, b>> : a \in pool, b \in pool }
                 \cup { <<a, b, c>> : a \in pool, b \in pool, c \in pool }

\* No extractor call in progress.
ExtractIdle ==
    /\ extractPc = "idle"
    /\ html = <<>>
    /\ extractPrefixes = <<>>
    /\ extractedItems = <<>>

\* extractItemsFromHtml is about to be called with a page and a prefix filter.
ExtractStart ==
    /\ extractPc = "page"
    /\ html \in ExtractPages
    /\ extractPrefixes \in PrefixLists
    /\ extractedItems = <<>>

\* const extracted = extractItemsFromHtml(html, currentPageUrl, prefixes)
ExtractPage ==
    /\ extractPc = "page"
    /\ extractPc' = "done"
    /\ extractedItems' = extractItemsFromHtml(html, extractPrefixes)
    /\ UNCHANGED <<html, extractPrefixes, chunkVars, refreshVars, crawlVars, overlapVars, normalizeVars, poolVars, buildVars, migrateVars, cacheVars, clientVars>>

ExtractNext == ExtractPage

(***************************************************************************)
(* Crawler: the product-container pass of the page extractor               *)
(***************************************************************************)
\* \w of the regular expressions.
IsWordChar(c) == IsUpper(c) \/ IsLower(c) \/ IsDigit(c) \/ c = "_"

\* value.trim(), the white space being blanks.
trim(s) ==
    LET kept == { k \in DOMAIN s : s[k] # " " }
    IN  IF kept = {} THEN <<>>
        ELSE SubSeq(s, CHOOSE k \in kept : \A j \in kept : k <= j,
                       CHOOSE k \in kept : \A j \in kept : k >= j)

\* blockText.replace(/\s+/g, ' ').trim()
collapseAndTrim(s) ==
    LET Collapsed[k \in 0..Len(s)] ==
            IF k = 0 THEN <<>>
            ELSE IF s[k] = " " /\ k > 1 /\ s[k - 1] = " " THEN Collapsed[k - 1]
            ELSE Collapsed[k - 1] \o <<s[k]>>
    IN  trim(Collapsed[Len(s)])

RECURSIVE FirstNonEmptyFrom(_, _)
\* firstNonEmpty(...values): the first value that is defined and not blank,
\* trimmed, as <<value>>; undefined is <<>>.
FirstNonEmptyFrom(values, k) ==
    IF k > Len(values) THEN <<>>
    ELSE IF values[k] # <<>> /\ trim(values[k][1]) # <<>> THEN <<trim(values[k][1])>>
    ELSE FirstNonEmptyFrom(values, k + 1)

firstNonEmpty(values) == FirstNonEmptyFrom(values, 1)

RECURSIVE TextRun(_, _, _)
\* The number of [A-Z0-9\s-] characters (any case) from position j on, at
\* most max.
TextRun(t, j, max) ==
    IF max = 0 \/ j > Len(t) THEN 0
    ELSE IF IsUpper(t[j]) \/ IsLower(t[j]) \/ IsDigit(t[j]) \/ t[j] = " " \/ t[j] = "-"
    THEN 1 + TextRun(t, j + 1, max - 1)
    ELSE 0

\* \b between the characters at positions p - 1 and p.
WordBoundaryAt(t, p) ==
    (p > 1 /\ IsWordChar(t[p - 1])) # (p <= Len(t) /\ IsWordChar(t[p]))

RECURSIVE TextMatches(_, _, _)
\* text.match(new RegExp(`\\b${escapedPrefix}[A-Z0-9\\s-]{0,30}\\b`, 'gi')):
\* the leftmost matches from position i on, each as long as a closing word
\* boundary allows, none overlapping.
TextMatches(t, prefix, i) ==
    IF i + Len(prefix) - 1 > Len(t) THEN <<>>
    ELSE LET after == i + Len(prefix)
             ends == { r \in 0..TextRun(t, after, 30) : WordBoundaryAt(t, after + r) }
             longest == CHOOSE r \in ends : \A q \in ends : q <= r
         IN  IF /\ WordBoundaryAt(t, i)
                /\ \A k \in DOMAIN prefix : ToUpperChar(t[i + k - 1]) = prefix[k]
                /\ ends # {}
             THEN <<SubSeq(t, i, after + longest - 1)>>
                  \o TextMatches(t, prefix, after + longest)
             ELSE TextMatches(t, prefix, i + 1)

RECURSIVE FindPrefixLoop(_, _, _)
FindPrefixLoop(text, prefixList, k) ==
    IF k > Len(prefixList) THEN <<>>
    ELSE LET found == FirstNormalizedMatch(TextMatches(text, prefixList[k], 1),
                                           prefixList[k], 1)
         IN  IF found # <<>> THEN found ELSE FindPrefixLoop(text, prefixList, k + 1)

\* findPartNumber(text, prefixes); null is <<>>.
findPartNumber(text, prefixList) == FindPrefixLoop(text, prefixList, 1)

\* A product container as the pass sees it: its data-product-id and data-sku
\* attributes and the text of its first sku element (each <<>> when absent,
\* else <<value>>), its text and the href of its first link.
Container(dataProductId, dataSku, skuText, text, href) ==
    [dataProductId |-> dataProductId, dataSku |-> dataSku, skuText |-> skuText,
     text |-> text, href |-> href]

\* resolvedPartNumber of the container: the normalized attribute candidate
\* when there is one, ?? findPartNumber(normalizedText, prefixes)
\* ?? extractPartNumberFromHref(href, prefixes).  A candidate that
\* normalizes to '' is '' and not null, so that nothing replaces it.
resolvedPartNumberOf(container, prefixList) ==
    LET partNumberCandidate ==
            firstNonEmpty(<<container.dataProductId, container.dataSku, container.skuText>>)
        inText == findPartNumber(collapseAndTrim(container.text), prefixList)
    IN  IF partNumberCandidate # <<>> THEN normalizePartNumber(partNumberCandidate[1])
        ELSE IF inText # <<>> THEN inText
        ELSE extractPartNumberFromHref(container.href, prefixList)

\* The part numbers of the records the pass pushes for one container.
ContainerItems(container, prefixList) ==
    LET resolvedPartNumber == resolvedPartNumberOf(container, prefixList)
    IN  IF container.href = <<>> \/ collapseAndTrim(container.text) = <<>> THEN <<>>
        ELSE IF resolvedPartNumber = <<>> THEN <<>>
        ELSE IF ~isAllowedPartNumber(resolvedPartNumber, prefixList) THEN <<>>
        ELSE <<resolvedPartNumber>>

\* The containers the pass is given.
AttributeValues ==
    { <<>>, << <<" ">> >>, << <<"-","-">> >>, << <<"a","3","0","9"," ","1","1","1">> >>,
      << <<"B","9","9","9">> >> }

ContainerTexts ==
    { <<"O","i","l"," "," ","f","i","l","t","e","r">>,
      <<"N","r",".","a","3","0","9"," ","2","2","2",","," ","x">>,
      <<"X","A","3","0","9","2","2","2"," ","A","3","1","0","-","5">> }

ContainerHrefs ==
    { <<"/","a","b","o","u","t">>, <<"/","p","/","a","3","0","9","-","3","3","3">> }

Containers ==
    { Container(a, b, <<>>, t, h) :
          a \in AttributeValues, b \in {<<>>, << <<"A","3","1","0","4">> >>},
          t \in ContainerTexts, h \in ContainerHrefs }

\* The pass is about to handle one container of a page.
ContainerStart ==
    /\ extractPc = "container"
    /\ html \in Containers
    /\ extractPrefixes \in PrefixLists
    /\ extractedItems = <<>>

\* productNodes.each((_, node) => { ... }) for that container.
ExtractContainer ==
    /\ extractPc = "container"
    /\ extractPc' = "done"
    /\ extractedItems' = ContainerItems(html, extractPrefixes)
    /\ UNCHANGED <<html, extractPrefixes, chunkVars, refreshVars, crawlVars, overlapVars,
                   normalizeVars, poolVars, buildVars, migrateVars, cacheVars, clientVars>>

ContainerNext == ExtractContainer

(***************************************************************************)
(* Build orchestrator: existence checks, migrate, chunk:index              *)
(***************************************************************************)
VehicleKeys == { "default", "w123" }

migratedNdjsonPath(vehicleKey) == <<"data/vehicles", vehicleKey, "index/parts.ndjson">>

\* PARTS_NDJSON_PATH, when set, names another file than the one migrate writes.
ndjsonPathOf(pathSet, vehicleKey) ==
    IF pathSet THEN <<"data/custom", vehicleKey, "parts.ndjson">>
    ELSE migratedNdjsonPath(vehicleKey)

\* PARTS_JSON_PATH, when set, names another base snapshot.
baseJsonPathOf(pathSet) ==
    IF pathSet THEN <<"data/custom", "parts-base.json">>
    ELSE <<"public/data", "parts-base.json">>

\* How a spawned npm script ends: 'close' with an exit code, 'close' with no
\* code (the child was killed by a signal), or 'error' (it could not be spawned).
ChildOutcomes == { "0", "1", "2", "unknown", "error" }

ResolvesOnAnyClose(outcome) == outcome # "error"

\* runNpmScript resolves on 'close' with code 0 and rejects on everything else.
Resolves(outcome) == outcome = "0"

CommandFailed(script, outcome) ==
    IF outcome = "error" THEN <<"spawn", script>>
    ELSE <<"Command failed: npm run", script, "exit", outcome>>

StageOf(script, inputPath) == [script |-> script, input |-> inputPath, exit |-> "running"]

Exited(stage, outcome) == [stage EXCEPT !.exit = outcome]

BuildIdle ==
    /\ buildPc = "idle"
    /\ hasNdjson = FALSE
    /\ hasBaseJson = FALSE
    /\ buildEnv = [ndjson |-> FALSE, baseJson |-> FALSE, vehicleKey |-> "default"]
    /\ chunkInputPath = <<>>
    /\ stages = <<>>
    /\ buildError = <<>>

BuildStart ==
    /\ buildPc = "main"
    /\ hasNdjson \in BOOLEAN
    /\ hasBaseJson \in BOOLEAN
    /\ buildEnv \in [ndjson : BOOLEAN, baseJson : BOOLEAN, vehicleKey : VehicleKeys]
    /\ chunkInputPath = <<>>
    /\ stages = <<>>
    /\ buildError = <<>>

ndjsonPath == ndjsonPathOf(buildEnv.ndjson, buildEnv.vehicleKey)

baseJsonPath == baseJsonPathOf(buildEnv.baseJson)

\* main() up to its first await of a child: the two existence checks, the throw
\* when there is no source, else the spawn of migrate or of chunk:index.
BuildMain ==
    /\ buildPc = "main"
    /\ IF ~hasNdjson /\ ~hasBaseJson
       THEN /\ buildPc' = "failed"
            /\ buildError' = <<"No data source found for build.", ndjsonPath, baseJsonPath>>
            /\ UNCHANGED <<chunkInputPath, stages>>
       ELSE IF ~hasNdjson /\ hasBaseJson
       THEN /\ buildPc' = "migrate"
            /\ chunkInputPath' = ndjsonPath
            /\ stages' = <<StageOf("migrate", baseJsonPath)>>
            /\ UNCHANGED buildError
       ELSE /\ buildPc' = "chunk:index"
            /\ chunkInputPath' = ndjsonPath
            /\ stages' = <<StageOf("chunk:index", ndjsonPath)>>
            /\ UNCHANGED buildError
    /\ UNCHANGED <<hasNdjson, hasBaseJson, buildEnv, chunkVars, refreshVars, crawlVars,
                   extractVars, overlapVars, normalizeVars, poolVars, migrateVars, cacheVars, clientVars>>

\* The migrate child ends; on success main() goes on to spawn chunk:index on
\* the file migrate wrote.
MigrateSettles(outcome) ==
    /\ buildPc = "migrate"
    /\ IF Resolves(outcome)
       THEN /\ buildPc' = "chunk:index"
            /\ chunkInputPath' = migratedNdjsonPath(buildEnv.vehicleKey)
            /\ stages' = <<Exited(stages[1], outcome),
                           StageOf("chunk:index", migratedNdjsonPath(buildEnv.vehicleKey))>>
            /\ UNCHANGED buildError
       ELSE /\ buildPc' = "failed"
            /\ stages' = <<Exited(stages[1], outcome)>>
            /\ buildError' = CommandFailed("migrate", outcome)
            /\ UNCHANGED chunkInputPath
    /\ UNCHANGED <<hasNdjson, hasBaseJson, buildEnv, chunkVars, refreshVars, crawlVars,
                   extractVars, overlapVars, normalizeVars, poolVars, migrateVars, cacheVars, clientVars>>

\* The chunk:index child ends.
ChunkIndexSettles(outcome) ==
    /\ buildPc = "chunk:index"
    /\ stages' = [stages EXCEPT ![Len(stages)] = Exited(@, outcome)]
    /\ IF Resolves(outcome)
       THEN /\ buildPc' = "done"
            /\ UNCHANGED buildError
       ELSE /\ buildPc' = "failed"
            /\ buildError' = CommandFailed("chunk:index", outcome)
    /\ UNCHANGED <<hasNdjson, hasBaseJson, buildEnv, chunkInputPath, chunkVars,
                   refreshVars, crawlVars, extractVars, overlapVars, normalizeVars, poolVars, migrateVars, cacheVars, clientVars>>

BuildNext ==
    \/ BuildMain
    \/ \E outcome \in ChildOutcomes : MigrateSettles(outcome)
    \/ \E outcome \in ChildOutcomes : ChunkIndexSettles(outcome)

(***************************************************************************)
(* Migration: the streaming scanner of the base snapshot                   *)
(***************************************************************************)
MaxElements == 2

MaxRead == 7

SEARCH_TAIL == 1024

SEARCH_LIMIT == 8192

ItemsKey == <<"\"", "i", "t", "e", "m", "s", "\"">>

\* What precedes the elements: {"items":[ and {"p":["A"],"items": [
SnapshotHeaders ==
    { <<"{", "\"", "i", "t", "e", "m", "s", "\"", ":", "[">>,
      <<"{", "\"", "p", "\"", ":", "[", "\"", "A", "\"", "]", ",",
        "\"", "i", "t", "e", "m", "s", "\"", ":", " ", "[">> }

\* Elements of the items array: {"n": "a"}, {"n":"}{"}, {"n":"\"}"},
\* {"h":{"g":[]}} and {"n":"\\"} (braces in a string, an escaped quote before
\* a brace, a nested object holding an array, an escaped backslash).
SnapshotElements ==
    { <<"{", "\"", "n", "\"", ":", " ", "\"", "a", "\"", "}">>,
      <<"{", "\"", "n", "\"", ":", "\"", "}", "{", "\"", "}">>,
      <<"{", "\"", "n", "\"", ":", "\"", "\\", "\"", "}", "\"", "}">>,
      <<"{", "\"", "h", "\"", ":", "{", "\"", "g", "\"", ":", "[", "]", "}", "}">>,
      <<"{", "\"", "n", "\"", ":", "\"", "\\", "\\", "\"", "}">> }

\* What follows the elements: ]} and ],"f":{"n":"a"}}
SnapshotTrailers ==
    { <<"]", "}">>,
      <<"]", ",", "\"", "f", "\"", ":", "{", "\"", "n", "\"", ":", "\"", "a", "\"", "}", "}">> }

SnapshotDocs ==
    [ header : SnapshotHeaders,
      items : UNION { [1..n -> SnapshotElements] : n \in 0..MaxElements },
      trailer : SnapshotTrailers ]

RECURSIVE JoinElements(_, _)
\* The elements as JSON.stringify lays them out: a comma and white space between.
JoinElements(elements, k) ==
    IF k > Len(elements) THEN <<>>
    ELSE (IF k > 1 THEN <<",", " ">> ELSE <<>>) \o elements[k] \o JoinElements(elements, k + 1)

snapshotTextOf(doc) == doc.header \o JoinElements(doc.items, 1) \o doc.trailer

\* String.prototype.indexOf(needle, from) with 1-based positions; 0 for -1.
indexOfFrom(text, needle, from) ==
    LET hits == { p \in from..(Len(text) - Len(needle) + 1) :
                      SubSeq(text, p, p + Len(needle) - 1) = needle }
    IN  IF hits = {} THEN 0 ELSE CHOOSE p \in hits : \A q \in hits : p <= q

\* String.prototype.slice(-n)
sliceTail(text, n) ==
    IF Len(text) <= n THEN text ELSE SubSeq(text, Len(text) - n + 1, Len(text))

RECURSIVE JsonParseFrom(_, _, _, _)
\* JSON.parse followed by JSON.stringify: white space outside strings is dropped.
JsonParseFrom(text, k, inStr, esc) ==
    IF k > Len(text) THEN <<>>
    ELSE LET ch == text[k]
         IN  IF inStr
             THEN <<ch>> \o JsonParseFrom(text, k + 1, esc \/ ch # "\"",
                                          ~esc /\ ch = "\\")
             ELSE IF ch = " " THEN JsonParseFrom(text, k + 1, FALSE, FALSE)
             ELSE <<ch>> \o JsonParseFrom(text, k + 1, ch = "\"", FALSE)

migrateRecord(rawRecord) ==
    [ record |-> rawRecord,
      enrichment |-> [price |-> <<>>, availability |-> "unknown", lastCheckedAt |-> <<>>] ]

\* The canonical record line processObject writes for one captured object.
recordLineOf(jsonObjectText) == migrateRecord(JsonParseFrom(jsonObjectText, 1, FALSE, FALSE))

ScannerStart ==
    [ inItemsArray |-> FALSE, searchBuffer |-> <<>>, capturingObject |-> FALSE,
      objectBuffer |-> <<>>, objectDepth |-> 0, inString |-> FALSE, escaped |-> FALSE ]

RECURSIVE consumeArrayFragment(_, _, _, _)
\* consumeArrayFragment from character k of the fragment on: the scanner's
\* variables and the lines written when it returns.
consumeArrayFragment(sc, lines, fragment, k) ==
    IF k > Len(fragment) THEN [scanner |-> sc, lines |-> lines]
    ELSE LET ch == fragment[k]
             buffered == [sc EXCEPT !.objectBuffer = @ \o <<ch>>]
         IN  IF sc.capturingObject
             THEN IF sc.inString
                  THEN IF sc.escaped
                       THEN consumeArrayFragment([buffered EXCEPT !.escaped = FALSE],
                                                 lines, fragment, k + 1)
                       ELSE IF ch = "\\"
                       THEN consumeArrayFragment([buffered EXCEPT !.escaped = TRUE],
                                                 lines, fragment, k + 1)
                       ELSE IF ch = "\""
                       THEN consumeArrayFragment([buffered EXCEPT !.inString = FALSE],
                                                 lines, fragment, k + 1)
                       ELSE consumeArrayFragment(buffered, lines, fragment, k + 1)
                  ELSE IF ch = "\""
                  THEN consumeArrayFragment([buffered EXCEPT !.inString = TRUE],
                                            lines, fragment, k + 1)
                  ELSE IF ch = "{"
                  THEN consumeArrayFragment([buffered EXCEPT !.objectDepth = @ + 1],
                                            lines, fragment, k + 1)
                  ELSE IF ch = "}"
                  THEN IF sc.objectDepth - 1 = 0
                       THEN consumeArrayFragment(
                                [buffered EXCEPT !.objectDepth = 0,
                                                 !.capturingObject = FALSE,
                                                 !.objectBuffer = <<>>],
                                Append(lines, recordLineOf(buffered.objectBuffer)),
                                fragment, k + 1)
                       ELSE consumeArrayFragment([buffered EXCEPT !.objectDepth = @ - 1],
                                                 lines, fragment, k + 1)
                  ELSE consumeArrayFragment(buffered, lines, fragment, k + 1)
             ELSE IF ch = "{"
             THEN consumeArrayFragment(
                      [sc EXCEPT !.capturingObject = TRUE, !.objectBuffer = <<"{">>,
                                 !.objectDepth = 1, !.inString = FALSE, !.escaped = FALSE],
                      lines, fragment, k + 1)
             ELSE IF ch = "]"
             THEN [scanner |-> sc, lines |-> lines]
             ELSE consumeArrayFragment(sc, lines, fragment, k + 1)

\* The body of the read loop for one chunk of text.
afterChunk(sc, lines, textChunk) ==
    IF ~sc.inItemsArray
    THEN LET searchBuffer == sc.searchBuffer \o textChunk
             itemsKeyIndex == indexOfFrom(searchBuffer, ItemsKey, 1)
             arrayStartIndex == indexOfFrom(searchBuffer, <<"[">>, itemsKeyIndex)
         IN  IF itemsKeyIndex = 0
             THEN [scanner |-> [sc EXCEPT !.searchBuffer =
                                   IF Len(searchBuffer) > SEARCH_TAIL
                                   THEN sliceTail(searchBuffer, SEARCH_TAIL)
                                   ELSE searchBuffer],
                   lines |-> lines]
             ELSE IF arrayStartIndex = 0
             THEN [scanner |-> [sc EXCEPT !.searchBuffer =
                                   IF Len(searchBuffer) > SEARCH_LIMIT
                                   THEN SubSeq(searchBuffer, itemsKeyIndex, Len(searchBuffer))
                                   ELSE searchBuffer],
                   lines |-> lines]
             ELSE consumeArrayFragment(
                      [sc EXCEPT !.inItemsArray = TRUE, !.searchBuffer = <<>>], lines,
                      SubSeq(searchBuffer, arrayStartIndex + 1, Len(searchBuffer)), 1)
    ELSE consumeArrayFragment(sc, lines, textChunk, 1)

MigrateIdle ==
    /\ migratePc = "idle"
    /\ snapshotDoc = [header |-> <<>>, items |-> <<>>, trailer |-> <<>>]
    /\ readPos = 0
    /\ scanner = ScannerStart
    /\ partsLines = <<>>

MigrateStart ==
    /\ migratePc = "read"
    /\ snapshotDoc \in SnapshotDocs
    /\ readPos = 0
    /\ scanner = ScannerStart
    /\ partsLines = <<>>

snapshotText == snapshotTextOf(snapshotDoc)

\* The read stream delivers the next chunk, of any length up to MaxRead.
ReadChunk(size) ==
    /\ migratePc = "read"
    /\ readPos + size <= Len(snapshotText)
    /\ LET after == afterChunk(scanner, partsLines,
                               SubSeq(snapshotText, readPos + 1, readPos + size))
       IN  /\ scanner' = after.scanner
           /\ partsLines' = after.lines
    /\ readPos' = readPos + size
    /\ UNCHANGED <<migratePc, snapshotDoc, chunkVars, refreshVars, crawlVars, extractVars,
                   overlapVars, normalizeVars, poolVars, buildVars, cacheVars, clientVars>>

\* The read stream ends and parts.ndjson is closed.
StreamEnd ==
    /\ migratePc = "read"
    /\ readPos = Len(snapshotText)
    /\ migratePc' = "done"
    /\ UNCHANGED <<snapshotDoc, readPos, scanner, partsLines, chunkVars, refreshVars,
                   crawlVars, extractVars, overlapVars, normalizeVars, poolVars, buildVars, cacheVars, clientVars>>

MigrateNext ==
    \/ \E size \in 1..MaxRead : ReadChunk(size)
    \/ StreamEnd

(***************************************************************************)
(* Detail pages: the per-URL cache of fetchProductDetailMeta               *)
(***************************************************************************)
MaxDetailCalls == 4

DetailUrls == { "/p/a3091234567", "/p/a3101234567" }

\* What a detail-page request can end with: fetch() throws, the status is not
\* a success, response.text() throws, or a page arrives: one marked sold out,
\* one with a delivery text, one with neither price nor delivery information.
DetailFetchEnds ==
    { "network_error", "status_503", "body_error", "soldout_page", "delivery_page",
      "bare_page" }

UnknownMeta == [price |-> <<>>, availability |-> "unknown"]

\* The ProductDetailMeta a call returns when its fetch ends with fetchEnd.
detailMetaOf(fetchEnd) ==
    IF fetchEnd = "soldout_page" THEN [price |-> <<"7,50 EUR">>, availability |-> "out_of_stock"]
    ELSE IF fetchEnd = "delivery_page" THEN [price |-> <<"9,99 EUR">>, availability |-> "in_stock"]
    ELSE UnknownMeta

\* The fetch answered with a success status and its body could be read.
IsPage(fetchEnd) == fetchEnd \in { "soldout_page", "delivery_page", "bare_page" }

cacheAfterAnyEnd(cache, url, fetchEnd) ==
    (url :> detailMetaOf(fetchEnd)) @@ cache

\* productDetailCache after the fetch for url has ended: set on both return
\* paths of a parsed page, untouched on !response.ok and in the catch.
cacheAfter(cache, url, fetchEnd) ==
    IF IsPage(fetchEnd) THEN (url :> detailMetaOf(fetchEnd)) @@ cache ELSE cache

DetailEvent(kind, url, meta) == [kind |-> kind, url |-> url, meta |-> meta]

CacheIdle ==
    /\ productDetailCache = <<>>
    /\ pendingFetches = [url \in DetailUrls |-> 0]
    /\ detailCalls = 0
    /\ lastDetail = DetailEvent("none", "", UnknownMeta)

\* fetchProductDetailMeta(url) up to its first await: the cached result is
\* returned at once, else the request is sent.
DetailCall(url) ==
    /\ detailCalls < MaxDetailCalls
    /\ detailCalls' = detailCalls + 1
    /\ IF url \in DOMAIN productDetailCache
       THEN /\ lastDetail' = DetailEvent("cached", url, productDetailCache[url])
            /\ UNCHANGED pendingFetches
       ELSE /\ lastDetail' = DetailEvent("fetch", url, UnknownMeta)
            /\ pendingFetches' = [pendingFetches EXCEPT ![url] = @ + 1]
    /\ UNCHANGED <<productDetailCache, chunkVars, refreshVars, crawlVars, extractVars,
                   overlapVars, normalizeVars, poolVars, buildVars, migrateVars, clientVars>>

\* The fetch of one waiting call ends and the call returns.
DetailFetchEnd(url, fetchEnd) ==
    /\ pendingFetches[url] > 0
    /\ pendingFetches' = [pendingFetches EXCEPT ![url] = @ - 1]
    /\ productDetailCache' = cacheAfter(productDetailCache, url, fetchEnd)
    /\ lastDetail' = DetailEvent(IF IsPage(fetchEnd) THEN "stored" ELSE "failed", url,
                                 detailMetaOf(fetchEnd))
    /\ UNCHANGED <<detailCalls, chunkVars, refreshVars, crawlVars, extractVars,
                   overlapVars, normalizeVars, poolVars, buildVars, migrateVars, clientVars>>

CacheNext ==
    \/ \E url \in DetailUrls : DetailCall(url)
    \/ \E url \in DetailUrls, fetchEnd \in DetailFetchEnds : DetailFetchEnd(url, fetchEnd)

(***************************************************************************)
(* Client: lazy enrichment of the visible items                            *)
(***************************************************************************)
MaxEnrichRequests == 3

ClientParts == { "A3091234567", "A3101234567" }

\* An item as a chunk delivers it: without price and availability, or with both.
ClientItemStates == { UnknownMeta, [price |-> <<"9,99 EUR">>, availability |-> "in_stock"] }

\* A result set: some of the parts, each in one of the item states.
ResultSets == UNION { [parts -> ClientItemStates] : parts \in SUBSET ClientParts }

shouldLazyEnrich(item) == item.price = <<>> \/ item.availability = "unknown"

\* The candidates of lazyEnrichVisibleItems(items).
LazyCandidates(result, pageItems, loading, loaded) ==
    { pn \in pageItems : /\ shouldLazyEnrich(result[pn])
                         /\ pn \notin loading
                         /\ pn \notin loaded }

\* What a response can carry for a request: entries for some of its part numbers.
EnrichPayloads(partNumbers) ==
    UNION { [parts -> ClientItemStates] : parts \in SUBSET partNumbers }

\* for (const item of allItems): the entry's price when it has one, and its
\* availability, are copied into the item.
ApplyEntries(result, entries) ==
    [pn \in DOMAIN result |->
        IF pn \notin DOMAIN entries THEN result[pn]
        ELSE [price |-> IF entries[pn].price # <<>> THEN entries[pn].price
                        ELSE result[pn].price,
              availability |-> entries[pn].availability]]

ClientIdle ==
    /\ allItems = <<>>
    /\ lazyLoadingPartNumbers = {}
    /\ lazyLoadedPartNumbers = {}
    /\ enrichRequests = {}
    /\ requestsSent = 0

\* lazyEnrichVisibleItems(pageItems) up to its await: nothing without a
\* candidate, else the candidates are marked as loading and one request
\* carrying them is sent.
LazyEnrichFrom(result, pageItems, loading, loaded) ==
    LET candidates == LazyCandidates(result, pageItems, loading, loaded)
    IN  IF candidates = {}
        THEN /\ lazyLoadingPartNumbers' = loading
             /\ UNCHANGED <<enrichRequests, requestsSent>>
        ELSE /\ requestsSent < MaxEnrichRequests
             /\ lazyLoadingPartNumbers' = loading \cup candidates
             /\ enrichRequests' = enrichRequests \cup
                    { [id |-> requestsSent + 1, partNumbers |-> candidates] }
             /\ requestsSent' = requestsSent + 1

\* renderCurrentPage() after a page, sort or filter event: pageItems is the
\* slice of the visible items that is shown.
RenderCurrentPage(pageItems) ==
    /\ pageItems # {}
    /\ LazyEnrichFrom(allItems, pageItems, lazyLoadingPartNumbers, lazyLoadedPartNumbers)
    /\ UNCHANGED <<allItems, lazyLoadedPartNumbers, chunkVars, refreshVars, crawlVars,
                   extractVars, overlapVars, normalizeVars, poolVars, buildVars, migrateVars,
                   cacheVars>>

\* applyResultItems(items): the result is replaced, both marker sets are
\* cleared and the first page is rendered, which starts its lazy enrichment.
ApplyResultItems(result) ==
    /\ allItems' = result
    /\ lazyLoadedPartNumbers' = {}
    /\ LazyEnrichFrom(result, DOMAIN result, {}, {})
    /\ UNCHANGED <<chunkVars, refreshVars, crawlVars, extractVars, overlapVars,
                   normalizeVars, poolVars, buildVars, migrateVars, cacheVars>>

\* clearResultState(): no result, both marker sets cleared, no enrichment.
ClearResultState ==
    /\ allItems' = <<>>
    /\ lazyLoadingPartNumbers' = {}
    /\ lazyLoadedPartNumbers' = {}
    /\ UNCHANGED <<enrichRequests, requestsSent, chunkVars, refreshVars, crawlVars,
                   extractVars, overlapVars, normalizeVars, poolVars, buildVars, migrateVars,
                   cacheVars>>

\* The marker sets after the finally block of a request for partNumbers.
MarkersAfter(loading, loaded, partNumbers) ==
    [loading |-> loading \ partNumbers, loaded |-> loaded \cup partNumbers]

\* A request's response arrives: its entries are applied to the current
\* result; a failed request applies nothing. Either way its part numbers move
\* from loading to loaded.
EnrichCompletes(request, ok, entries) ==
    /\ request \in enrichRequests
    /\ enrichRequests' = enrichRequests \ {request}
    /\ allItems' = IF ok THEN ApplyEntries(allItems, entries) ELSE allItems
    /\ LET after == MarkersAfter(lazyLoadingPartNumbers, lazyLoadedPartNumbers,
                                 request.partNumbers)
       IN  /\ lazyLoadingPartNumbers' = after.loading
           /\ lazyLoadedPartNumbers' = after.loaded
    /\ UNCHANGED <<requestsSent, chunkVars, refreshVars, crawlVars, extractVars,
                   overlapVars, normalizeVars, poolVars, buildVars, migrateVars, cacheVars>>

ClientNext ==
    \/ \E pageItems \in SUBSET DOMAIN allItems : RenderCurrentPage(pageItems)
    \/ \E result \in ResultSets : ApplyResultItems(result)
    \/ ClearResultState
    \/ \E request \in enrichRequests :
          \/ EnrichCompletes(request, FALSE, <<>>)
          \/ \E entries \in EnrichPayloads(request.partNumbers) :
                EnrichCompletes(request, TRUE, entries)

(***************************************************************************)
(* Specifications: one per component, the other components at rest         *)
(***************************************************************************)
ChunkInit == ChunkStart /\ RefreshIdle /\ CrawlIdle /\ ExtractIdle /\ OverlapIdle /\ NormalizeIdle /\ PoolIdle /\ BuildIdle /\ MigrateIdle /\ CacheIdle /\ ClientIdle

SpecChunk == ChunkInit /\ [][ChunkNext]_vars

RefreshInit == RefreshStart /\ ChunkIdle /\ CrawlIdle /\ ExtractIdle /\ OverlapIdle /\ NormalizeIdle /\ PoolIdle /\ BuildIdle /\ MigrateIdle /\ CacheIdle /\ ClientIdle

SpecRefresh == RefreshInit /\ [][RefreshNext]_vars

EnrichInit == EnrichStart /\ ChunkIdle /\ CrawlIdle /\ ExtractIdle /\ OverlapIdle /\ NormalizeIdle /\ PoolIdle /\ BuildIdle /\ MigrateIdle /\ CacheIdle /\ ClientIdle

SpecEnrich == EnrichInit /\ [][EnrichNext]_vars

DirectInit == DirectStart /\ ChunkIdle /\ CrawlIdle /\ ExtractIdle /\ OverlapIdle /\ NormalizeIdle /\ PoolIdle /\ BuildIdle /\ MigrateIdle /\ CacheIdle /\ ClientIdle

SpecDirect == DirectInit /\ [][DirectNext]_vars

CrawlInit == CrawlStart /\ ChunkIdle /\ RefreshIdle /\ ExtractIdle /\ OverlapIdle /\ NormalizeIdle /\ PoolIdle /\ BuildIdle /\ MigrateIdle /\ CacheIdle /\ ClientIdle

SpecCrawl == CrawlInit /\ [][CrawlNext]_vars

TraverseInit ==
    /\ TraverseStart
    /\ ChunkIdle /\ RefreshIdle /\ ExtractIdle /\ OverlapIdle /\ NormalizeIdle /\ PoolIdle /\ BuildIdle /\ MigrateIdle /\ CacheIdle /\ ClientIdle

SpecTraverse == TraverseInit /\ [][TraverseNext]_vars

ExtractInit == ExtractStart /\ ChunkIdle /\ RefreshIdle /\ CrawlIdle /\ OverlapIdle /\ NormalizeIdle /\ PoolIdle /\ BuildIdle /\ MigrateIdle /\ CacheIdle /\ ClientIdle

SpecExtract == ExtractInit /\ [][ExtractNext]_vars

ContainerInit ==
    /\ ContainerStart
    /\ ChunkIdle /\ RefreshIdle /\ CrawlIdle /\ OverlapIdle /\ NormalizeIdle /\ PoolIdle /\ BuildIdle /\ MigrateIdle /\ CacheIdle /\ ClientIdle

SpecContainer == ContainerInit /\ [][ContainerNext]_vars

OverlapInit == OverlapStart /\ ChunkIdle /\ CrawlIdle /\ ExtractIdle /\ NormalizeIdle /\ PoolIdle /\ BuildIdle /\ MigrateIdle /\ CacheIdle /\ ClientIdle

SpecOverlap == OverlapInit /\ [][OverlapNext]_vars

NormalizeInit ==
    /\ NormalizeStart
    /\ ChunkIdle /\ RefreshIdle /\ CrawlIdle /\ ExtractIdle /\ OverlapIdle /\ PoolIdle /\ BuildIdle /\ MigrateIdle /\ CacheIdle /\ ClientIdle

PoolInit ==
    /\ PoolStart
    /\ ChunkIdle /\ RefreshIdle /\ CrawlIdle /\ ExtractIdle /\ OverlapIdle /\ NormalizeIdle /\ BuildIdle /\ MigrateIdle /\ CacheIdle /\ ClientIdle

SpecPool == PoolInit /\ [][PoolNext]_vars

BuildInit ==
    /\ BuildStart
    /\ ChunkIdle /\ RefreshIdle /\ CrawlIdle /\ ExtractIdle /\ OverlapIdle /\ NormalizeIdle /\ PoolIdle /\ MigrateIdle /\ CacheIdle /\ ClientIdle

SpecBuild == BuildInit /\ [][BuildNext]_vars

MigrateInit ==
    /\ MigrateStart
    /\ ChunkIdle /\ RefreshIdle /\ CrawlIdle /\ ExtractIdle /\ OverlapIdle /\ NormalizeIdle /\ PoolIdle
    /\ BuildIdle /\ CacheIdle /\ ClientIdle

SpecMigrate == MigrateInit /\ [][MigrateNext]_vars

CacheInit ==
    /\ CacheIdle
    /\ ChunkIdle /\ RefreshIdle /\ CrawlIdle /\ ExtractIdle /\ OverlapIdle /\ NormalizeIdle /\ PoolIdle
    /\ BuildIdle /\ MigrateIdle /\ ClientIdle

SpecCache == CacheInit /\ [][CacheNext]_vars

ClientInit ==
    /\ ClientIdle
    /\ ChunkIdle /\ RefreshIdle /\ CrawlIdle /\ ExtractIdle /\ OverlapIdle /\ NormalizeIdle /\ PoolIdle
    /\ BuildIdle /\ MigrateIdle /\ CacheIdle

SpecClient == ClientInit /\ [][ClientNext]_vars

SpecNormalize == NormalizeInit /\ [][NormalizeNext]_vars

(***************************************************************************)
(* Chunked Index Builder: properties                                       *)
(***************************************************************************)
\* A valid record: a parseable line whose part number does not normalize to ''.
IsValidRecord(line) ==
    line.kind = "record" /\ normalizePartNumberOf(line) # <<>>

ValidRecords(lines) == SelectSeq(lines, IsValidRecord)

RECURSIVE ConcatFiles(_, _)
\* The chunk files of the manifest's chunks, concatenated in the order listed.
ConcatFiles(metas, i) ==
    IF i > Len(metas) THEN <<>>
    ELSE files[metas[i].file[1]] \o ConcatFiles(metas, i + 1)

RECURSIVE SumCounts(_, _)
SumCounts(metas, i) ==
    IF i > Len(metas) THEN 0 ELSE metas[i].count + SumCounts(metas, i + 1)

\* C4: when the builder has finished, the manifest lists exactly ceil(N/S)
\* chunks, N the number of valid records of the input stream and S the chunk
\* size (0 chunks when N = 0).
C4_ChunkCountIsCeil ==
    builderPc = "done" =>
        LET n == Len(ValidRecords(input))
        IN  /\ manifest[1].chunkCount = CeilDiv(n, chunkSize)
            /\ Len(manifest[1].chunks) = CeilDiv(n, chunkSize)

C4_Witness ==
    /\ builderPc = "done"
    /\ chunkSize = 2
    /\ Len(ValidRecords(input)) = 3
    /\ manifest[1].chunkCount = 2

ListedKeys(index, c) == { k \in DOMAIN index : c \in Range(index[k]) }

\* C6: a chunk id is listed under a 4-character key of byPartPrefix4 iff some
\* record written to that chunk has a part number starting with that key; every
\* key has 4 characters, and every record's own 4-character prefix lists the
\* record's chunk.
C6_PartPrefixIndexIff ==
    builderPc = "done" =>
        LET index == chunkMap[1].byPartPrefix4
            own(c) == { slice0(normalizePartNumberOf(files[c][i]), 4) :
                          i \in { i \in DOMAIN files[c] :
                                    Len(normalizePartNumberOf(files[c][i])) >= 4 } }
        IN  /\ \A k \in DOMAIN index : Len(k) = 4
            /\ \A c \in DOMAIN files :
                  /\ own(c) \subseteq ListedKeys(index, c)
                  /\ \A k \in ListedKeys(index, c) :
                        \E i \in DOMAIN files[c] :
                            startsWith(normalizePartNumberOf(files[c][i]), k)

C6_Witness ==
    /\ builderPc = "done"
    /\ <<"A","3","0","9">> \in DOMAIN chunkMap[1].byPartPrefix4
    /\ chunkMap[1].byPartPrefix4[<<"A","3","0","9">>] = <<0, 1>>
    /\ <<"A","3","1","0">> \in DOMAIN chunkMap[1].byPartPrefix4
    /\ \E c \in DOMAIN files : \E i \in DOMAIN files[c] :
          Len(normalizePartNumberOf(files[c][i])) < PartPrefixLen

\* The name tokens as the claim describes them: the maximal runs of letters and
\* digits of the lower-cased name that are at least 3 long, by start position.
ClaimTokenStarts(name) ==
    { i \in DOMAIN name :
        /\ IsTokenChar(name[i])
        /\ (i = 1 \/ ~IsTokenChar(name[i - 1]))
        /\ \A j \in i..(i + 2) : j <= Len(name) /\ IsTokenChar(name[j]) }

ClaimTokenPrefix(name, i) == toLowerCase(SubSeq(name, i, i + 2))

\* The 3-character prefixes of all tokens of a name.
ClaimNameKeys(name) == { ClaimTokenPrefix(name, t) : t \in ClaimTokenStarts(name) }

\* The first 8 distinct token prefixes of a name, in name order: a token counts
\* while fewer than 8 distinct prefixes precede it.
ClaimCappedNameKeys(name) ==
    LET starts == ClaimTokenStarts(name)
    IN  { ClaimTokenPrefix(name, t) :
            t \in { t \in starts :
                      Cardinality({ ClaimTokenPrefix(name, j) : j \in { j \in starts : j < t } }) < 8 } }

\* C7 as stated: a chunk id is listed under a 3-character key of byNamePrefix3
\* iff some record of that chunk has a name token (length >= 3) whose first
\* three characters are that key.
C7_NamePrefixIndexIff_Original ==
    builderPc = "done" =>
        \A c \in DOMAIN files :
            ListedKeys(chunkMap[1].byNamePrefix3, c) =
                UNION { ClaimNameKeys(files[c][i].name) : i \in DOMAIN files[c] }

\* C7 (amended): a chunk id is listed under a 3-character key of byNamePrefix3
\* iff some record of that chunk has that key among the first 8 distinct
\* 3-character prefixes of its lower-cased name tokens, taken in name order.
C7_NamePrefixIndexIffCapped ==
    builderPc = "done" =>
        /\ \A k \in DOMAIN chunkMap[1].byNamePrefix3 : Len(k) = 3
        /\ \A c \in DOMAIN files :
              ListedKeys(chunkMap[1].byNamePrefix3, c) =
                  UNION { ClaimCappedNameKeys(files[c][i].name) : i \in DOMAIN files[c] }

C7_Witness ==
    /\ builderPc = "done"
    /\ <<"h","h","h">> \in DOMAIN chunkMap[1].byNamePrefix3
    /\ <<"i","i","i">> \notin DOMAIN chunkMap[1].byNamePrefix3
    /\ <<"o","i","l">> \in DOMAIN chunkMap[1].byNamePrefix3
    /\ Len(chunkMap[1].byNamePrefix3[<<"o","i","l">>]) = 2

(***************************************************************************)
(* Discovery Crawler: properties                                           *)
(***************************************************************************)
\* p is an initial segment of s.
BeginsWith(s, p) == Len(p) <= Len(s) /\ \A i \in 1..Len(p) : s[i] = p[i]

\* The all-zero placeholder pattern: A followed by ten or more zeros.
IsPlaceholder(partNumber) ==
    /\ Len(partNumber) >= 11
    /\ partNumber[1] = "A"
    /\ \A i \in 2..Len(partNumber) : partNumber[i] = "0"

\* fetchParts has returned (and the snapshot may have been served).
CrawlReturned == crawlPc \in {"done", "served"}

\* C1: under any sequence of server responses, the item list fetchParts
\* builds and returns never holds two items with the same part number, across
\* pages, search term variants, prefixes, and the search and sitemap paths.
C1_NoDuplicatePartNumbers ==
    \A i, j \in DOMAIN items : items[i].partNumber = items[j].partNumber => i = j

\* A returned list whose search-found item was offered again by the sitemap
\* fallback.
C1_Witness ==
    /\ CrawlReturned
    /\ \E i \in DOMAIN items, f \in DOMAIN foundItems :
          /\ items[i].via = "search"
          /\ foundItems[f].partNumber = items[i].partNumber

\* C2: every item of the list starts with one of the requested prefixes: an
\* item found by search starts with the prefix that was being searched, an
\* item found by the sitemap fallback with one of the configured prefixes.
C2_PartNumbersStartWithPrefix ==
    \A i \in DOMAIN items :
        /\ items[i].via = "search" =>
              /\ BeginsWith(items[i].partNumber, items[i].searchPrefix)
              /\ \E j \in DOMAIN prefixes : prefixes[j] = items[i].searchPrefix
        /\ items[i].via = "sitemap" =>
              \E j \in DOMAIN prefixes : BeginsWith(items[i].partNumber, prefixes[j])

\* A returned list with a search item and a sitemap item that matches only
\* the second configured prefix.
C2_Witness ==
    /\ CrawlReturned
    /\ Len(prefixes) = 2
    /\ Len(items) = 2
    /\ items[1].via = "search"
    /\ items[2].via = "sitemap"
    /\ ~BeginsWith(items[2].partNumber, prefixes[1])
    /\ BeginsWith(items[2].partNumber, prefixes[2])

\* C3: an id matching the all-zero placeholder pattern appears neither in
\* what fetchParts returns nor in what filterSnapshotItems returns, even when
\* a configured prefix matches it.
C3_NoPlaceholderInOutput ==
    /\ CrawlReturned => \A i \in DOMAIN items : ~IsPlaceholder(items[i].partNumber)
    /\ \A i \in DOMAIN filteredItems : ~IsPlaceholder(filteredItems[i].partNumber)

\* The half of C3 that holds: filterSnapshotItems never returns a placeholder,
\* also when the snapshot it filters holds one.
FilterOutputHasNoPlaceholder ==
    \A i \in DOMAIN filteredItems : ~IsPlaceholder(filteredItems[i].partNumber)

FilterDroppedPlaceholder ==
    /\ crawlPc = "served"
    /\ \E i \in DOMAIN items : IsPlaceholder(items[i].partNumber)
    /\ prefixes = << <<"A","0">> >>

(***************************************************************************)
(* Enrichment Refresher: properties                                        *)
(***************************************************************************)
\* The cursor the next invocation starts from: the persisted value, 0 while
\* the state file does not exist.
PersistedCursor == IF cursorFile = <<>> THEN 0 ELSE cursorFile[1]

\* Every catalog item's entry was missing or stale when the run started.
InitAllStale ==
    \A i \in DOMAIN baseItems :
        LET pn == baseItems[i].partNumber
        IN  \/ pn \notin DOMAIN initPrices
            \/ initPrices[pn].updatedAt = <<>>
            \/ StartDay - initPrices[pn].updatedAt[1] > StaleDays

\* C8: for a catalog of M items and a fixed batch size B < M, once ceil(M/B)
\* rotating-batch invocations have run, every catalog index has been examined
\* by a scan (selected, or skipped as fresh).
C8_RotatingCoverage ==
    (batchSize < Len(baseItems) /\ calls >= CeilDiv(Len(baseItems), batchSize)) =>
        scanned = 0..(Len(baseItems) - 1)

C8_Witness ==
    /\ Len(baseItems) = 3
    /\ batchSize = 2
    /\ calls = 2
    /\ startCursor = 1
    /\ \E pn \in DOMAIN initPrices : initPrices[pn].updatedAt = <<StartDay>>
    /\ scanned = {0, 1, 2}

\* C9 as stated: with no staleness change from outside (here: no time has
\* passed), after exactly ceil(M/B) invocations with B < M the persisted cursor
\* equals the starting cursor, for every initial mix of fresh and stale entries.
C9_CursorCycle_Original ==
    (/\ batchSize < Len(baseItems)
     /\ calls = CeilDiv(Len(baseItems), batchSize)
     /\ now = StartDay) =>
        PersistedCursor = startCursor

\* C9 (amended): the cursor is back at its starting value after ceil(M/B)
\* invocations (B < M) when every item's entry was missing or stale at the
\* start and no entry written during the sequence has become stale (at most
\* the staleness window has passed since the start).
C9_CursorCycleFromAllStale ==
    (/\ batchSize < Len(baseItems)
     /\ calls = CeilDiv(Len(baseItems), batchSize)
     /\ InitAllStale
     /\ now - StartDay <= StaleDays) =>
        PersistedCursor = startCursor

C9_Witness ==
    /\ Len(baseItems) = 3
    /\ batchSize = 2
    /\ calls = 2
    /\ InitAllStale
    /\ \E pn \in DOMAIN initPrices : initPrices[pn].updatedAt = <<0>>
    /\ startCursor = 1
    /\ now = StartDay + 7
    /\ cursorFile = <<1>>

\* C10: with base items [A3091234567, A3101234567], no price entries, batch
\* size 1 and cursor 0, the first rotating-batch call selects only A3091234567
\* and persists cursor 1; the second selects only A3101234567 and persists
\* cursor 0.
C10_Example ==
    (/\ Len(baseItems) = 2
     /\ baseItems[1].partNumber = <<"A","3","0","9","1","2","3","4","5","6","7">>
     /\ baseItems[2].partNumber = <<"A","3","1","0","1","2","3","4","5","6","7">>
     /\ initPrices = <<>>
     /\ startCursor = 0
     /\ batchSize = 1) =>
        /\ calls = 1 =>
              /\ lastSelected = << <<"A","3","0","9","1","2","3","4","5","6","7">> >>
              /\ cursorFile = <<1>>
        /\ calls = 2 =>
              /\ lastSelected = << <<"A","3","1","0","1","2","3","4","5","6","7">> >>
              /\ cursorFile = <<0>>

C10_Witness ==
    /\ Len(baseItems) = 2
    /\ baseItems[1].partNumber = <<"A","3","0","9","1","2","3","4","5","6","7">>
    /\ baseItems[2].partNumber = <<"A","3","1","0","1","2","3","4","5","6","7">>
    /\ initPrices = <<>>
    /\ startCursor = 0
    /\ batchSize = 1
    /\ calls = 2
    /\ lastSelected = << <<"A","3","1","0","1","2","3","4","5","6","7">> >>
    /\ cursorFile = <<0>>
    /\ DOMAIN prices = { baseItems[1].partNumber, baseItems[2].partNumber }


LastWasDirect == lastKind \in {"direct", "direct_function", "direct_sync_function"}

\* C12: in one direct-mode call no part number is fetched (and written) more
\* than once, however often and in whatever spelling the request list names it.
C12_DirectModeFetchesOnce ==
    LastWasDirect =>
        \A i, j \in DOMAIN lastSelected : i # j => lastSelected[i] # lastSelected[j]

\* A request that named each of 99 part numbers twice, in two spellings, and
\* fetched the 99.
C12_Witness ==
    /\ lastKind = "direct_function"
    /\ lastRequest = LongRequest(DirectCap - 1, TRUE)
    /\ lastRequest[1] # lastRequest[2]
    /\ normalizePartNumber(lastRequest[1]) = normalizePartNumber(lastRequest[2])
    /\ lastSelected = LongRequest(DirectCap - 1, FALSE)

\* C13 as stated: a direct-mode call fetches at most 100 items, whichever entry
\* point serves it.
C13_DirectCapEverywhere ==
    LastWasDirect => Len(lastSelected) <= DirectCap

\* The part of C13 the code keeps: the two enrich-visible entry points serve a
\* request of more than 100 distinct part numbers and fetch 100 items.
C13_EnrichVisibleCapped ==
    lastKind \in {"direct", "direct_function"} => Len(lastSelected) <= DirectCap

C13_EnrichVisibleTruncated ==
    /\ lastKind = "direct"
    /\ Len(lastRequest) > DirectCap
    /\ Len(lastSelected) = DirectCap
    /\ DOMAIN prices = Range(lastSelected)


\* The last invocation was one that writes the price snapshot.
LastWroteSnapshot == lastKind \in {"rotating", "direct"}

\* C14: after a rotating-batch or direct invocation, the price snapshot's
\* entry of every part number fetched in it is exactly the fetched price and
\* availability with updatedAt = now, whatever was stored before and also when
\* the result is unknown with no price.  (No time passes between invocations
\* here, so now is the time of the invocation.)
C14_MergeRule ==
    LastWroteSnapshot =>
        \A k \in DOMAIN lastSelected :
            /\ lastSelected[k] \in DOMAIN prices
            /\ prices[lastSelected[k]] =
                   PriceEntry(lastResults[k].price, lastResults[k].availability, <<now>>)

\* A rotating-batch invocation replaced a stored out_of_stock entry with a
\* price by the unknown, price-less result of its fetch.
C14_Witness ==
    /\ lastKind = "rotating"
    /\ calls = 1
    /\ lastSelected # <<>>
    /\ lastSelected[1] \in DOMAIN initPrices
    /\ initPrices[lastSelected[1]] = PriceEntry(<<"7,50 EUR">>, "out_of_stock", <<0>>)
    /\ lastResults[1] = [price |-> <<>>, availability |-> "unknown"]
    /\ prices[lastSelected[1]] = PriceEntry(<<>>, "unknown", <<now>>)

\* A stored entry with a confident status.
IsConfident(entry) == entry.availability \in {"in_stock", "out_of_stock"}

\* C15 as stated: a failed detail fetch for a part number whose stored entry
\* has a confident status leaves that status and the stored price in place.
C15_FailedFetchKeepsEntry_Original ==
    [][\A k \in DOMAIN lastSelected' :
          (/\ calls' > calls
           /\ LastWroteSnapshot'
           /\ lastResults'[k] = [price |-> <<>>, availability |-> "unknown"]
           /\ lastSelected'[k] \in DOMAIN prices
           /\ IsConfident(prices[lastSelected'[k]]))
          => /\ prices'[lastSelected'[k]].availability = prices[lastSelected'[k]].availability
             /\ prices'[lastSelected'[k]].price = prices[lastSelected'[k]].price]_vars

\* C15, amended: a stored entry with a confident status turns unknown, or loses
\* its price, in an invocation only if its part number is one of the items
\* that invocation fetched; a failed fetch touches no other part number's entry.
C15_FailedFetchConfinedToFetched ==
    [][\A pn \in DOMAIN prices \cap DOMAIN prices' :
          (/\ IsConfident(prices[pn])
           /\ \/ prices'[pn].availability = "unknown"
              \/ prices[pn].price # <<>> /\ prices'[pn].price = <<>>)
          => /\ LastWroteSnapshot'
             /\ \E k \in DOMAIN lastSelected' : lastSelected'[k] = pn]_vars

\* A direct-mode call whose only fetch failed turned that part number's
\* out_of_stock entry into unknown without a price, and left the stored entry
\* of another part number as it was.
C15_Witness ==
    /\ lastKind = "direct"
    /\ calls = 1
    /\ Len(lastSelected) = 1
    /\ lastResults[1] = [price |-> <<>>, availability |-> "unknown"]
    /\ lastSelected[1] \in DOMAIN initPrices
    /\ IsConfident(initPrices[lastSelected[1]])
    /\ prices[lastSelected[1]].availability = "unknown"
    /\ prices[lastSelected[1]].price = <<>>
    /\ \E pn \in DOMAIN prices \ {lastSelected[1]} : prices[pn] = initPrices[pn]

\* C16: when a detail fetch of a batch fails, the item gets no price and
\* availability unknown, every item of the batch is fetched and written in
\* that invocation, and the invocation completes and persists (a rotating one
\* also its cursor).
C16_FailureDoesNotAbortBatch ==
    (/\ LastWroteSnapshot
     /\ \E k \in DOMAIN lastResults : lastResults[k].availability = "unknown")
    => /\ Len(lastResults) = Len(lastSelected)
       /\ \A k \in DOMAIN lastSelected :
             /\ lastSelected[k] \in DOMAIN prices
             /\ prices[lastSelected[k]].updatedAt = <<now>>
             /\ lastResults[k].availability = "unknown" =>
                   /\ prices[lastSelected[k]].price = <<>>
                   /\ prices[lastSelected[k]].availability = "unknown"
             /\ lastResults[k].availability # "unknown" =>
                   prices[lastSelected[k]].availability = lastResults[k].availability
       /\ lastKind = "rotating" => (cursorFile # <<>> /\ ~catalogReplaced)

\* A rotating batch of two whose first fetch failed and whose second
\* succeeded: both entries were written and the cursor persisted.
C16_Witness ==
    /\ lastKind = "rotating"
    /\ Len(lastSelected) >= 2
    /\ lastResults[1].availability = "unknown"
    /\ lastResults[2].availability = "in_stock"
    /\ prices[lastSelected[1]] = PriceEntry(<<>>, "unknown", <<now>>)
    /\ prices[lastSelected[2]] = PriceEntry(<<"9,99 EUR">>, "in_stock", <<now>>)
    /\ cursorFile # <<>>

\* C17 as stated: no invocation removes a part number from the price
\* snapshot, also when the invocation could not read the existing file.
C17_KeysGrowMonotonically ==
    [][DOMAIN prices \subseteq DOMAIN prices']_vars

\* C18: within one crawl run the search path never fetches the same search
\* page URL twice, over all prefixes and query-term variants, redirects
\* included: no search request is for a URL already fetched in the run.
C18_NoSearchUrlFetchedTwice == "search" \notin refetched

\* C19: within one crawl run the sitemap traversal never fetches the same
\* sitemap URL twice, however often the URL is enqueued: no sitemap request
\* is for a URL already fetched in the run.
C19_NoSitemapFetchedTwice == "sitemap" \notin refetched

\* The traversal awaits a sitemap fetch while a URL it has already fetched is
\* queued again behind the head.
C19_Witness ==
    /\ crawlPc = "sitemap"
    /\ visitedSitemaps # {}
    /\ \E k \in DOMAIN sitemapQueue : sitemapQueue[k] \in visitedSitemaps

\* C20: extracting a page without product containers and anchors that has one
\* JSON-LD Product block with sku "a309-999", with the prefix filter ["A309"],
\* yields exactly one record, and its partNumber is "A309999".
C20_ExampleYieldsOneRecord ==
    (/\ extractPc = "done"
     /\ html = <<ExampleSku>>
     /\ extractPrefixes = << <<"A","3","0","9">> >>)
    => extractedItems = << <<"A","3","0","9","9","9","9">> >>

(***************************************************************************)
(* Chunked Index Builder: failure semantics                                *)
(***************************************************************************)
\* C21: when a non-blank input line is not parseable JSON the pass aborts at
\* that line: the line is the last one read, the run has failed, the records
\* counted are those before the line, and neither manifest.json nor
\* chunk-map.json is written.
C21_MalformedLineAborts ==
    \A k \in DOMAIN input :
        input[k].kind = "malformed" =>
            /\ k = Len(input)
            /\ builderPc = "failed"
            /\ totalParts = Len(ValidRecords(SubSeq(input, 1, k - 1)))
            /\ manifest = <<>>
            /\ chunkMap = <<>>

\* A run that failed on a malformed line after it had written a record, with
\* room for more lines in the input.
C21_Witness ==
    /\ builderPc = "failed"
    /\ input # <<>>
    /\ input[Len(input)].kind = "malformed"
    /\ totalParts >= 1
    /\ Len(input) < MaxLines

(***************************************************************************)
(* Enrichment Refresher: overlapping invocations                           *)
(***************************************************************************)
\* C22: overlapping refresher invocations are not safe, the later whole-file
\* write discarding what the earlier one wrote, whereas invocations that do
\* not overlap never lose an entry: no write of an invocation during which no
\* other invocation wrote discards or reverts an entry it did not fetch.
C22_OnlyOverlapLosesEntries == "sequential" \notin lost

(***************************************************************************)
(* Normalizer: properties                                                  *)
(***************************************************************************)
\* C23: normalizePartNumber is idempotent, normalize(normalize(x)) =
\* normalize(x) for every input x, and its result contains only the
\* characters A-Z and 0-9.
C23_NormalizeIdempotent ==
    /\ normPc \in {"once", "twice"} => \A k \in DOMAIN once : IsUpper(once[k]) \/ IsDigit(once[k])
    /\ normPc = "twice" => twice = once

\* A value with a lower-case letter, a separator and a sharp s, normalized
\* twice to a non-empty result that differs from the value.
C23_Witness ==
    /\ normPc = "twice"
    /\ raw = <<"a", "-", "ß">>
    /\ once = <<"A", "S", "S">>

(***************************************************************************)
(* Enrichment Refresher: cursor advance and selection                      *)
(***************************************************************************)
\* A step is a rotating-batch invocation on a non-empty catalog.
RotatingStep == calls' = calls + 1 /\ lastKind' = "rotating" /\ baseItems # <<>>

\* The catalog index of a part number.
IndexOf(pn) == (CHOOSE i \in DOMAIN baseItems : baseItems[i].partNumber = pn) - 1

\* The selection loop of the invocation that starts in the current state.
ScanNow ==
    ScanLoop(baseItems, FreshSet(baseItems, LAMBDA pn : IsCandidate(prices, pn, now)),
             SyncStartCursor(cursorFile, Len(baseItems)), batchSize, 0, <<>>, {})

C25_SelectionRule ==
    [][(calls' = calls + 1 /\ lastKind' = "rotating") =>
          /\ \A k \in DOMAIN lastSelected' :
                \/ lastSelected'[k] \notin DOMAIN prices
                \/ now - prices[lastSelected'[k]].updatedAt[1] > StaleDays
          /\ Len(lastSelected') <= batchSize
          /\ \A j, k \in DOMAIN lastSelected' :
                IndexOf(lastSelected'[j]) = IndexOf(lastSelected'[k]) => j = k]_vars

(***************************************************************************)
(* Enrichment passes: properties                                           *)
(***************************************************************************)
\* The number of the chunk an item is fetched in.
ChunkNumber(k) == (k - 1) \div concurrency

\* C26: during an enrichment pass the number of detail fetches in flight
\* never exceeds the pool size, and no fetch of a chunk has started before
\* every fetch of the chunks before it has settled.
C26_WorkerPoolBound ==
    /\ Cardinality(inFlight) <= concurrency
    /\ \A k \in inFlight \cup settled :
          \A earlier \in 1..queueLen :
              ChunkNumber(earlier) < ChunkNumber(k) => earlier \in settled

\* The second chunk of a pass of the dev server is in flight, one of its
\* fetches settled, after a first chunk that filled the pool.
C26_Witness ==
    /\ passPc = "await"
    /\ concurrency = AVAILABILITY_FETCH_CONCURRENCY
    /\ chunkStart = concurrency
    /\ 1..concurrency \subseteq settled
    /\ concurrency + 1 \in settled
    /\ concurrency + 2 \in inFlight

(***************************************************************************)
(* Crawler: termination of the search path                                 *)
(***************************************************************************)
\* The number of page fetches the search path can have made when it awaits
\* a fetch: MAX_PAGES for each term variant before the current one, and the
\* fetches of the current one.
SearchRank == ((prefixIdx - 1) * 3 + (termIdx - 1)) * MAX_PAGES + pageCount

\* C27: whatever the server answers, a term variant is fetched for at most
\* MAX_PAGES times, a further fetch of the same variant is made only while
\* the limit is not reached and the URL was not visited, and every fetch
\* moves the search path on, so that it ends after at most
\* prefixes x 3 x MAX_PAGES fetches.
C27_SearchTerminates ==
    [][crawlPc = "search" =>
          /\ pageCount < MAX_PAGES
          /\ SearchRank < Len(prefixes) * 3 * MAX_PAGES
          /\ crawlPc' = "search" =>
                /\ SearchRank' > SearchRank
                /\ (prefixIdx' = prefixIdx /\ termIdx' = termIdx) =>
                      /\ pageCount' = pageCount + 1
                      /\ Len(items') < limit
                      /\ pageUrl'[1] \notin visited']_vars

\* The first term variant was given up at the ceiling: MAX_PAGES distinct
\* pages were fetched for it and the second variant is about to be fetched.
C27_Witness ==
    /\ crawlPc = "search"
    /\ prefixIdx = 1
    /\ termIdx = 2
    /\ pageCount = 0
    /\ Cardinality(fetchedPages) = MAX_PAGES

(***************************************************************************)
(* Crawler: a failed search fetch                                          *)
(***************************************************************************)
\* C28: a search fetch answered with a non-success, non-redirect status
\* stops only its own branch: the crawl goes on (with the next term variant,
\* the next prefix or what follows the search) and the records collected so
\* far are kept.
C28_FailureStopsOnlyBranch ==
    [][crawlPc = "search" =>
          /\ crawlPc' \in {"search", "robots", "sitemap", "enrich", "done"}
          /\ Len(items') >= Len(items)
          /\ SubSeq(items', 1, Len(items)) = items]_vars

(***************************************************************************)
(* Crawler: the result limit                                               *)
(***************************************************************************)
\* C29: a crawl never holds more items than the limit; the sitemap fallback
\* collects no more than limit minus the items the search found; and a
\* sitemap is fetched only while fewer than maxSitemaps were visited and
\* that budget is not used up.
C29_ResultLimit ==
    /\ Len(items) <= limit
    /\ crawlPc \in {"robots", "sitemap"} => Len(foundItems) <= limit - Len(items)
    /\ crawlPc = "sitemap" =>
          /\ Cardinality(visitedSitemaps) < maxSitemaps
          /\ Len(foundItems) < limit - Len(items)
    /\ Cardinality(visitedSitemaps) <= maxSitemaps

\* The last sitemap the ceiling allows is about to be fetched, the sitemaps
\* before it having yielded one item of a budget of two.
C29_Witness ==
    /\ crawlPc = "sitemap"
    /\ Cardinality(visitedSitemaps) = maxSitemaps - 1
    /\ Len(items) = 0
    /\ Len(foundItems) = 1
    /\ limit = 2

(***************************************************************************)
(* Crawler: when the sitemap fallback runs                                 *)
(***************************************************************************)
\* C30: robots.txt is fetched only once the last term variant of the last
\* prefix has been searched, with at most one item found and the limit not
\* met; robots.txt and sitemaps are fetched in no other case.
C30_FallbackOnlyAfterSearch ==
    [][/\ crawlPc' = "robots" =>
             /\ crawlPc = "search"
             /\ prefixIdx = Len(prefixes)
             /\ termIdx = Len(searchTerms(prefixes[prefixIdx]))
             /\ Len(items') <= 1
             /\ Len(items') < limit
       /\ crawlPc' = "sitemap" => crawlPc \in {"robots", "sitemap"}
       /\ crawlPc \in {"robots", "sitemap"} => Len(items) <= 1 /\ Len(items) < limit]_vars

\* robots.txt is about to be fetched after a search for two prefixes that
\* found one item of a limit of two.
C30_Witness ==
    /\ crawlPc = "robots"
    /\ Len(prefixes) = 2
    /\ Len(items) = 1
    /\ limit = 2

(***************************************************************************)
(* Chunked Index Builder: the manifest                                     *)
(***************************************************************************)
\* C31: the manifest lists the chunk ids 0, 1, ..., chunkCount-1 in order;
\* every chunk counts between one record and the chunk size, and only the
\* last chunk counts fewer than the chunk size; totalParts is the sum of the
\* counts; and a chunk's firstPartNumber and lastPartNumber are the
\* normalized part numbers of the first and the last record written to it.
C31_ManifestInvariant ==
    manifest # <<>> =>
        LET m == manifest[1]
            metas == m.chunks
        IN  /\ m.chunkCount = Len(metas)
            /\ \A k \in DOMAIN metas :
                  /\ metas[k].id = k - 1
                  /\ metas[k].count >= 1
                  /\ metas[k].count <= chunkSize
                  /\ k < Len(metas) => metas[k].count = chunkSize
                  /\ LET written == files[metas[k].id]
                     IN  /\ metas[k].firstPartNumber = normalizePartNumberOf(written[1])
                         /\ metas[k].lastPartNumber =
                                normalizePartNumberOf(written[Len(written)])
            /\ m.totalParts = SumCounts(metas, 1)

\* A manifest of two chunks, the first full with two records whose part
\* numbers differ and are not written in normalized form, the last smaller.
C31_Witness ==
    /\ builderPc = "done"
    /\ chunkSize = 2
    /\ Len(manifest[1].chunks) = 2
    /\ manifest[1].chunks[2].count = 1
    /\ manifest[1].chunks[1].firstPartNumber # manifest[1].chunks[1].lastPartNumber
    /\ files[0][2].partNumber # manifest[1].chunks[1].lastPartNumber

(***************************************************************************)
(* Crawler: the identifier of a product container                          *)
(***************************************************************************)
\* C32: the identifier of a container is taken from its data attributes,
\* else from a prefix-anchored token of its text, else from one of its link
\* target; a later source is used whenever every earlier one yields nothing
\* usable, that is, is absent or empty after normalization.
C32_IdentifierPriority ==
    (extractPc = "done" /\ html \in Containers) =>
        LET candidate == firstNonEmpty(<<html.dataProductId, html.dataSku, html.skuText>>)
            fromAttributes == IF candidate = <<>> THEN <<>>
                              ELSE normalizePartNumber(candidate[1])
            fromText == findPartNumber(collapseAndTrim(html.text), extractPrefixes)
            fromHref == extractPartNumberFromHref(html.href, extractPrefixes)
            identifier == IF fromAttributes # <<>> THEN fromAttributes
                          ELSE IF fromText # <<>> THEN fromText
                          ELSE fromHref
        IN  extractedItems =
                IF identifier # <<>> /\ isAllowedPartNumber(identifier, extractPrefixes)
                THEN <<identifier>> ELSE <<>>

(***************************************************************************)
(* Build orchestrator: the order of the stages                             *)
(***************************************************************************)
StartedScripts == { stages[k].script : k \in 1..Len(stages) }

\* C33: with neither source the build fails with a message naming both
\* expected paths and starts no stage; migrate is started exactly when the
\* NDJSON stream is missing and the base snapshot exists; chunk:index is
\* started only after migrate, when it was needed, exited with code 0, and
\* never after a failed migrate.
C33_BuildOrder ==
    /\ buildPc = "main" => stages = <<>>
    /\ (buildPc \notin {"main", "idle"} /\ ~hasNdjson /\ ~hasBaseJson) =>
           /\ buildPc = "failed"
           /\ stages = <<>>
           /\ Len(buildError) = 3
           /\ buildError[2] = ndjsonPath
           /\ buildError[3] = baseJsonPath
    /\ buildPc \notin {"main", "idle"} =>
           ("migrate" \in StartedScripts <=> (~hasNdjson /\ hasBaseJson))
    /\ \A k \in 1..Len(stages) :
           stages[k].script = "chunk:index" =>
               IF ~hasNdjson
               THEN /\ k = 2
                    /\ stages[1].script = "migrate"
                    /\ stages[1].exit = "0"
               ELSE k = 1
    /\ (\E k \in 1..Len(stages) : stages[k].script = "migrate" /\ stages[k].exit \notin {"0", "running"})
           => "chunk:index" \notin StartedScripts

C33_Witness ==
    /\ buildPc = "done"
    /\ Len(stages) = 2
    /\ stages[1].script = "migrate" /\ stages[1].exit = "0"
    /\ stages[2].script = "chunk:index"
    /\ buildEnv.ndjson
    /\ chunkInputPath # ndjsonPath

(***************************************************************************)
(* Migration: one record line per element of the items array               *)
(***************************************************************************)
ElementLines == [k \in 1..Len(snapshotDoc.items) |-> recordLineOf(snapshotDoc.items[k])]

\* The read stream has delivered the bracket that closes the items array.
ArrayClosed ==
    readPos > Len(snapshotDoc.header) + Len(JoinElements(snapshotDoc.items, 1))

\* C34: however the snapshot is split into read chunks, the lines written are
\* the canonical record lines of the elements of the items array, one per
\* element and in array order: never more than the elements read so far, all
\* of them once the closing bracket of the array has been read, and none
\* after it.
C34_OneLinePerElement ==
    migratePc \in {"read", "done"} =>
        /\ Len(partsLines) <= Len(ElementLines)
        /\ partsLines = SubSeq(ElementLines, 1, Len(partsLines))
        /\ ArrayClosed => partsLines = ElementLines

(***************************************************************************)
(* Enrichment Refresher: what a direct-mode invocation leaves alone        *)
(***************************************************************************)
\* C35: a direct-mode invocation leaves the cursor as it was, and leaves the
\* price entry of every part number that is not among its resolved targets
\* as it was.
C35_DirectFrame ==
    [][(calls' = calls + 1 /\ lastKind' = "direct") =>
          /\ cursorFile' = cursorFile
          /\ \A pn \in DOMAIN prices :
                pn \notin Range(lastSelected') =>
                    /\ pn \in DOMAIN prices'
                    /\ prices'[pn] = prices[pn]]_vars

(***************************************************************************)
(* Enrichment Refresher: a rotating-batch invocation on a fresh catalog    *)
(***************************************************************************)
\* Every catalog item has a price entry younger than the staleness window.
AllFresh ==
    /\ baseItems # <<>>
    /\ \A k \in DOMAIN baseItems :
          /\ baseItems[k].partNumber \in DOMAIN prices
          /\ HasTimestamp(prices[baseItems[k].partNumber])
          /\ now - prices[baseItems[k].partNumber].updatedAt[1] <= StaleDays

\* C36: when every catalog item has a price entry younger than the staleness
\* window, a rotating-batch invocation fetches no detail page and leaves the
\* price entries and the persisted cursor as they were.
C36_AllFreshFrame ==
    [][(calls' = calls + 1 /\ lastKind' = "rotating" /\ AllFresh) =>
          /\ lastSelected' = <<>>
          /\ prices' = prices
          /\ cursorFile' = cursorFile]_vars

(***************************************************************************)
(* Detail pages: what the cache holds                                      *)
(***************************************************************************)
\* C37: a fetch that failed leaves the cache as it was, so that a later call
\* for the URL fetches again; a fetch that succeeded stores its result under
\* its URL; a call for a URL that has a stored result returns that result and
\* sends no request; and an entry appears or changes in the cache only by the
\* successful fetch of its URL storing its own result.
C37_CacheHoldsSuccessesOnly ==
    [][/\ lastDetail'.kind = "failed" =>
              /\ productDetailCache' = productDetailCache
              /\ lastDetail'.meta = UnknownMeta
       /\ lastDetail'.kind = "stored" =>
              /\ lastDetail'.url \in DOMAIN productDetailCache'
              /\ productDetailCache'[lastDetail'.url] = lastDetail'.meta
       /\ detailCalls' = detailCalls + 1 =>
              IF lastDetail'.url \in DOMAIN productDetailCache
              THEN /\ lastDetail'.kind = "cached"
                   /\ lastDetail'.meta = productDetailCache[lastDetail'.url]
                   /\ pendingFetches' = pendingFetches
              ELSE /\ lastDetail'.kind = "fetch"
                   /\ pendingFetches'[lastDetail'.url] = pendingFetches[lastDetail'.url] + 1
       /\ \A url \in DOMAIN productDetailCache' :
              (url \notin DOMAIN productDetailCache
                  \/ productDetailCache'[url] # productDetailCache[url]) =>
                  /\ lastDetail'.kind = "stored"
                  /\ lastDetail'.url = url
                  /\ productDetailCache'[url] = lastDetail'.meta]_vars

\* The fourth call is answered from the cache with a sold-out result while
\* another call's fetch of the same URL is still under way.
C37_Witness ==
    /\ lastDetail.kind = "cached"
    /\ lastDetail.meta.availability = "out_of_stock"
    /\ pendingFetches[lastDetail.url] = 1
    /\ detailCalls = 4

(***************************************************************************)
(* Client: the marker sets and the requests in flight                      *)
(***************************************************************************)
\* The requests in flight that carry a part number.
RequestsCarrying(pn) == { request \in enrichRequests : pn \in request.partNumbers }

\* C38: under every interleaving of renders, result-set resets and request
\* completions no part number is in both the loading set and the loaded set,
\* and at most one request carrying a given part number is in flight.
C38_LazyEnrichExclusive ==
    /\ lazyLoadingPartNumbers \cap lazyLoadedPartNumbers = {}
    /\ \A pn \in ClientParts : Cardinality(RequestsCarrying(pn)) <= 1

=============================================================================
